---- MODULE Spec2Model ----
(***************************************************************************)
(* figgis: schema-driven normalization of raw mappings into Config         *)
(* records (src/figgis/__init__.py).                                       *)
(*                                                                         *)
(* Python objects live in a heap (a sequence of objects, the address of an *)
(* object is its index), so that identity, aliasing and mutation are       *)
(* visible.  Values are tagged scalars or references into the heap.        *)
(***************************************************************************)
EXTENDS Integers, Sequences, FiniteSets, TLC

(***************************************************************************)
(* Bounds                                                                  *)
(***************************************************************************)
\* number of operations the caller performs in one behaviour
MaxOps == 3

(***************************************************************************)
(* Values                                                                  *)
(***************************************************************************)
Val(t, i, s) == [t |-> t, i |-> i, s |-> s]

\* Python None
None == Val("none", 0, "")

\* the 'no default given' sentinel
NotSpecified == Val("notspecified", 0, "")

\* marks a key that is not in a dict
Absent == Val("absent", 0, "")

\* marks an instance attribute that has not been assigned yet
Unset == Val("unset", 0, "")

IntV(n) == Val("int", n, "")

StrV(x) == Val("str", 0, x)

BoolV(b) == Val("bool", IF b THEN 1 ELSE 0, "")

\* the float n.d for a decimal digit d given as text: FloatV(1, "0") is 1.0
FloatV(n, d) == Val("float", n, d)

Ref(a) == Val("ref", a, "")

\* the keys that occur in raw mappings and property bags
Keys == {"x", "@x", "y", "z", "g", "v", "to_dict", "parent"}

\* the Config classes of the model
Classes == {"Top", "Child", "GC"}

\* the user functions usable as coercion steps
Functions == {"fn_inc", "fn_same"}

(***************************************************************************)
(* Heap objects: dict, NormalizedDict, list and Config instances           *)
(***************************************************************************)
EmptyItems == [k \in Keys |-> Absent]

DictObj(items) ==
    [kind |-> "dict", cls |-> "", items |-> items, elems |-> <<>>,
     parent |-> None, props |-> Unset]

NormalizedDict(items) ==
    [kind |-> "ndict", cls |-> "", items |-> items, elems |-> <<>>,
     parent |-> None, props |-> Unset]

ListObj(elems) ==
    [kind |-> "list", cls |-> "", items |-> EmptyItems, elems |-> elems,
     parent |-> None, props |-> Unset]

\* a Config instance: _parent and _properties (Unset until __init__ assigns it)
RecObj(cls, parent, props) ==
    [kind |-> "rec", cls |-> cls, items |-> EmptyItems, elems |-> <<>>,
     parent |-> parent, props |-> props]

KindOf(heap, v) == IF v.t = "ref" THEN heap[v.i].kind ELSE v.t

IsDict(heap, v) == KindOf(heap, v) \in {"dict", "ndict"}

IsList(heap, v) == KindOf(heap, v) = "list"

IsRec(heap, v) == KindOf(heap, v) = "rec"

KeysOf(items) == {k \in Keys : items[k] # Absent}

\* the addresses an object refers to
Succ(heap, a) ==
    LET o == heap[a] IN
    {o.items[k].i : k \in {k2 \in Keys : o.items[k2].t = "ref"}}
    \cup {o.elems[j].i : j \in {j2 \in DOMAIN o.elems : o.elems[j2].t = "ref"}}
    \cup (IF o.parent.t = "ref" THEN {o.parent.i} ELSE {})
    \cup (IF o.props.t = "ref" THEN {o.props.i} ELSE {})

RECURSIVE ReachFrom(_, _)
ReachFrom(heap, S) ==
    LET N == S \cup UNION {Succ(heap, a) : a \in S}
    IN IF N = S THEN S ELSE ReachFrom(heap, N)

\* the addresses reachable from a value
Reach(heap, v) == IF v.t = "ref" THEN ReachFrom(heap, {v.i}) ELSE {}

\* some Config instance reachable from v has no _properties yet
Partial(heap, v) ==
    \E a \in Reach(heap, v) : heap[a].kind = "rec" /\ heap[a].props = Unset

(***************************************************************************)
(* Structural view of a value: the set of (path, leaf) facts below it.     *)
(* A Config instance is viewed through its property bag; parent links are  *)
(* not followed.                                                           *)
(***************************************************************************)
Mark(heap, v) ==
    IF v.t # "ref" THEN v
    ELSE LET o == heap[v.i] IN
         CASE o.kind = "list" -> Val("list", Len(o.elems), "")
           [] o.kind = "rec" -> Val("rec", 0, o.cls)
           [] OTHER -> Val("dict", 0, "")

RECURSIVE View(_, _, _)
View(heap, v, path) ==
    {[p |-> path, m |-> Mark(heap, v)]} \cup
    IF v.t # "ref" THEN {}
    ELSE LET o == heap[v.i] IN
         CASE o.kind = "list" ->
                UNION {View(heap, o.elems[j], Append(path, ToString(j - 1)))
                       : j \in DOMAIN o.elems}
           [] o.kind = "rec" ->
                IF o.props.t = "ref"
                THEN UNION {View(heap, heap[o.props.i].items[k], Append(path, k))
                            : k \in KeysOf(heap[o.props.i].items)}
                ELSE {[p |-> Append(path, "_properties"), m |-> Unset]}
           [] OTHER ->
                UNION {View(heap, o.items[k], Append(path, k))
                       : k \in KeysOf(o.items)}

\* the same, with every Config instance shown as a plain mapping
Plain(view) ==
    {[p |-> f.p, m |-> IF f.m.t = "rec" THEN Val("dict", 0, "") ELSE f.m]
     : f \in view}

(***************************************************************************)
(* Input fragments: a value together with the fresh objects it is made of, *)
(* addressed relative to the fragment; Load puts a fragment in the heap.   *)
(***************************************************************************)
Shift(v, k) == IF v.t = "ref" THEN Ref(v.i + k) ELSE v

ShiftObj(o, k) ==
    [kind |-> o.kind, cls |-> o.cls,
     items |-> [key \in Keys |-> Shift(o.items[key], k)],
     elems |-> [j \in DOMAIN o.elems |-> Shift(o.elems[j], k)],
     parent |-> Shift(o.parent, k), props |-> Shift(o.props, k)]

FS(v) == [objs |-> <<>>, val |-> v]

RECURSIVE FSeq(_)
FSeq(fs) ==
    IF fs = <<>> THEN [objs |-> <<>>, vals |-> <<>>]
    ELSE LET r == FSeq(SubSeq(fs, 1, Len(fs) - 1))
             f == fs[Len(fs)]
             k == Len(r.objs)
         IN [objs |-> r.objs \o [j \in 1..Len(f.objs) |-> ShiftObj(f.objs[j], k)],
             vals |-> Append(r.vals, Shift(f.val, k))]

FList(fs) ==
    LET r == FSeq(fs)
    IN [objs |-> Append(r.objs, ListObj(r.vals)), val |-> Ref(Len(r.objs) + 1)]

FDict(ks, fs) ==
    LET r == FSeq(fs)
        items == [k \in Keys |->
                    IF \E j \in 1..Len(ks) : ks[j] = k
                    THEN r.vals[CHOOSE j \in 1..Len(ks) : ks[j] = k]
                    ELSE Absent]
    IN [objs |-> Append(r.objs, DictObj(items)), val |-> Ref(Len(r.objs) + 1)]

Load(heap, frag) ==
    [heap |-> heap \o [j \in 1..Len(frag.objs) |-> ShiftObj(frag.objs[j], Len(heap))],
     val |-> Shift(frag.val, Len(heap))]

(***************************************************************************)
(* Field descriptors and the class table                                   *)
(***************************************************************************)
\* Field(*types, **kwargs) with every keyword at its default
Field(name, types) ==
    [name |-> name, key |-> "", islist |-> FALSE, types |-> types,
     required |-> FALSE, nullable |-> TRUE, default |-> NotSpecified,
     choices |-> {}, validators |-> <<>>, read_only |-> TRUE, hidden |-> FALSE]

\* ListField(*types, **kwargs)
ListField(name, types) == [Field(name, types) EXCEPT !.islist = TRUE]

\* fields       cls._fields of every Config class, in declaration order
\* allow_extra  the allow_extra bound into every class's _normalize
\* heap         the objects
\* records      addresses of the Config instances the caller holds
\* raws         addresses of the raw mappings the caller has built
\* dicts        the results of to_dict(): pairs <<mapping, instance>>
\* fresh        the instances that have not been modified since construction
\* defs         the class statements executed so far, in order
\* last         what the last operation was given and what it returned
\* nops         number of operations performed
VARIABLES fields, allow_extra, defs, heap, records, raws, dicts, fresh, last, nops

vars == <<fields, allow_extra, defs, heap, records, raws, dicts, fresh, last, nops>>

FieldNames(cls) == {fields[cls][i].name : i \in DOMAIN fields[cls]}

FieldOf(cls, name) ==
    fields[cls][CHOOSE i \in DOMAIN fields[cls] : fields[cls][i].name = name]

(***************************************************************************)
(* ConfigMeta.__new__: the field table of a new class.  A table is a dict  *)
(* in insertion order: a sequence of fields with distinct names.           *)
(***************************************************************************)
\* a variant: copy is not reserved
_RESERVED_without_copy == {"get", "update", "describe"}

_RESERVED == {"get", "update", "describe", "copy"}

\* key.startswith('__'), for the attribute names of the model
startswith_dunder(key) == key \in {"__d__"}

\* fields.update(other): a known key keeps its place and gets the new value
RECURSIVE dict_update(_, _)
dict_update(table, other) ==
    IF other = <<>> THEN table
    ELSE dict_update(
            IF \E j \in DOMAIN table : table[j].name = other[1].name
            THEN [j \in DOMAIN table |->
                    IF table[j].name = other[1].name THEN other[1] ELSE table[j]]
            ELSE Append(table, other[1]),
            Tail(other))

\* a variant: the list is walked as written, the last parent winning
not_reversed(seq) == seq

reversed(seq) == [j \in DOMAIN seq |-> seq[Len(seq) + 1 - j]]

\* for parent in inherits: fields.update(parent._fields)
RECURSIVE inherit(_, _)
inherit(table, inherits) ==
    IF inherits = <<>> THEN table
    ELSE inherit(dict_update(table, fields[inherits[1]]), Tail(inherits))

\* the items of the class body that are taken as fields
own_fields(dct) == SelectSeq(dct, LAMBDA f : ~startswith_dunder(f.name))

\* the table built from __inherits__ and the class body
merged_fields(inherits, dct) ==
    dict_update(inherit(<<>>, reversed(inherits)), own_fields(dct))

forbidden(table) == _RESERVED \cap {table[j].name : j \in DOMAIN table}

\* one executed class statement and how it ended
Def(name, inherits, dct, err) ==
    [name |-> name, inherits |-> inherits, dct |-> dct, err |-> err]

\* the classes that exist
Defined == {defs[j].name : j \in {i \in DOMAIN defs : defs[i].err = ""}}

(***************************************************************************)
(* Results of the handlers: the heap, the calls made to user code, the     *)
(* fields whose normalize was entered and those whose normalize returned,  *)
(* the exception raised (kind "" when none) and the value returned         *)
(***************************************************************************)
NoErr == [kind |-> "", path |-> <<>>, msg |-> ""]

St(h, calls) ==
    [heap |-> h, calls |-> calls, entered |-> <<>>, returned |-> <<>>,
     err |-> NoErr, val |-> None]

Failed(st) == st.err.kind # ""

Ret(st, v) == [st EXCEPT !.val = v]

Raise(st, kind, path, msg) ==
    [st EXCEPT !.err = [kind |-> kind, path |-> path, msg |-> msg], !.val = None]

\* the value v under a name of its own in what follows
Bind(v, K(_)) == K(v)

\* an exception raised by r propagates, otherwise the handler goes on
Then(r, K(_)) == IF Failed(r) THEN r ELSE K(r)

\* user code (a validator or a transform function) is entered with arg
Call(st, who, path, arg) ==
    [st EXCEPT !.calls = Append(@, [who |-> who, path |-> path, arg |-> arg,
                                    partial |-> Partial(st.heap, arg)])]

(***************************************************************************)
(* Built-in constructors                                                   *)
(***************************************************************************)
\* the strings int() can parse
NumStr == <<"0", "1", "2">>

IsNumStr(s) == \E j \in DOMAIN NumStr : NumStr[j] = s

ParseInt(s) == (CHOOSE j \in DOMAIN NumStr : NumStr[j] = s) - 1

\* the characters of the strings of the model
Chars(s) ==
    CASE s = "" -> <<>>
      [] s = "ab" -> <<"a", "b">>
      [] OTHER -> <<s>>

\* the order in which the keys of a dict are iterated: the inputs of the
\* model are built in this order and the fields of a class are declared in it
KeyOrder == <<"x", "@x", "y", "g", "v", "z", "to_dict", "parent">>

RECURSIVE KeyList(_, _)
KeyList(items, j) ==
    IF j > Len(KeyOrder) THEN <<>>
    ELSE (IF items[KeyOrder[j]] # Absent THEN <<StrV(KeyOrder[j])>> ELSE <<>>)
         \o KeyList(items, j + 1)

isinstance(h, v, type_) ==
    CASE type_ = "int" -> v.t \in {"int", "bool"}
      [] type_ = "bool" -> v.t = "bool"
      [] type_ = "str" -> v.t = "str"
      [] type_ = "list" -> IsList(h, v)
      [] type_ \in Classes -> IsRec(h, v) /\ h[v.i].cls = type_
      [] OTHER -> FALSE

\* int(value)
py_int(st, v) ==
    CASE v.t \in {"int", "bool", "float"} -> Ret(st, IntV(v.i))
      [] v.t = "str" -> IF IsNumStr(v.s) THEN Ret(st, IntV(ParseInt(v.s)))
                        ELSE Raise(st, "ValueError", <<>>, "invalid literal")
      [] OTHER -> Raise(st, "TypeError", <<>>, "int() argument")

\* str(value); the text of a container or of an instance is not modelled
py_str(st, v) ==
    CASE v.t = "int" -> Ret(st, StrV(ToString(v.i)))
      [] v.t = "bool" -> Ret(st, StrV(IF v.i = 1 THEN "True" ELSE "False"))
      [] v.t = "float" -> Ret(st, StrV(ToString(v.i) \o "." \o v.s))
      [] v.t = "none" -> Ret(st, StrV("None"))
      [] OTHER -> Ret(st, StrV("<repr>"))

\* list(value)
py_list(st, v) ==
    CASE v.t = "str" ->
           LET cs == Chars(v.s) IN
           [st EXCEPT !.heap = Append(@, ListObj([j \in DOMAIN cs |-> StrV(cs[j])])),
                      !.val = Ref(Len(st.heap) + 1)]
      [] IsDict(st.heap, v) ->
           [st EXCEPT !.heap = Append(@, ListObj(KeyList(st.heap[v.i].items, 1))),
                      !.val = Ref(Len(st.heap) + 1)]
      [] OTHER -> Raise(st, "TypeError", <<>>, "not iterable")

\* a variant: 'yes' is not a truthy value
_TRUTHY_without_yes(v) ==
    \/ v.t \in {"int", "bool"} /\ v.i = 1
    \/ v.t = "float" /\ v.i = 1 /\ v.s = "0"
    \/ v.t = "str" /\ v.s \in {"true", "True", "1"}

\* membership in a frozenset goes by Python equality: 1 == 1.0 == True
_TRUTHY(v) ==
    \/ v.t \in {"int", "bool"} /\ v.i = 1
    \/ v.t = "float" /\ v.i = 1 /\ v.s = "0"
    \/ v.t = "str" /\ v.s \in {"true", "True", "yes", "1"}

_FALSEY(v) ==
    \/ v.t \in {"int", "bool"} /\ v.i = 0
    \/ v.t = "float" /\ v.i = 0 /\ v.s = "0"
    \/ v.t = "str" /\ v.s \in {"false", "False", "no", "0"}

coerce_bool(st, v) ==
    IF v.t = "ref" /\ ~IsRec(st.heap, v)
    THEN Raise(st, "TypeError", <<>>, "unhashable")
    ELSE IF _TRUTHY(v) THEN Ret(st, BoolV(TRUE))
    ELSE IF _FALSEY(v) THEN Ret(st, BoolV(FALSE))
    ELSE Raise(st, "ValueError", <<>>, "")

\* the user's transform functions: fn_inc is lambda v: int(v) + 1,
\* fn_same is lambda v: v
apply_function(st, fn, v) ==
    Bind(Call(st, fn, <<>>, v), LAMBDA c :
        IF fn = "fn_same" THEN Ret(c, v)
        ELSE IF v.t \in {"int", "bool", "float"} THEN Ret(c, IntV(v.i + 1))
        ELSE Then(py_int(c, v), LAMBDA r : Ret(r, IntV(r.val.i + 1))))

(***************************************************************************)
(* Field: coercion, validation and normalization                           *)
(***************************************************************************)
RECURSIVE Config_init(_, _, _, _, _, _)
RECURSIVE normalize(_, _, _, _, _, _)
RECURSIVE fields_loop(_, _, _, _, _, _, _, _)
RECURSIVE Field_normalize(_, _, _, _, _, _)
RECURSIVE types_loop(_, _, _, _, _, _, _)
RECURSIVE Field_normalize_field(_, _, _, _, _, _, _)
RECURSIVE ListField_normalize_field(_, _, _, _, _, _, _)
RECURSIVE elements_loop(_, _, _, _, _, _, _, _, _)
RECURSIVE coerce(_, _, _, _, _)

\* Field.coerce(value, type_, parent)
coerce(st, value, type_, parent, pk) ==
    IF type_ \notin Functions /\ isinstance(st.heap, value, type_) THEN Ret(st, value)
    ELSE IF type_ = "bool" THEN coerce_bool(st, value)
    ELSE IF type_ \in Classes
         THEN Config_init(st, type_, value, EmptyItems, parent, pk)
    ELSE CASE type_ = "int" -> py_int(st, value)
           [] type_ = "str" -> py_str(st, value)
           [] type_ = "list" -> py_list(st, value)
           [] OTHER -> apply_function(st, type_, value)

\* Field.invalid_type(type_, value, prefixed)
invalid_type(st, f, type_, value) ==
    IF value = None THEN ~f.nullable
    ELSE IF type_ \in Classes
         THEN ~(isinstance(st.heap, value, type_) \/ IsDict(st.heap, value))
    ELSE IF type_ \in Functions THEN FALSE
    ELSE coerce(st, value, type_, None, "x").err.kind \in {"TypeError", "ValueError"}

\* membership of a value in a set of choices (Python equality: True == 1)
py_in(v, choices) ==
    \E c \in choices :
        \/ c = v
        \/ /\ c.t \in {"int", "bool", "float"} /\ v.t \in {"int", "bool", "float"}
           /\ c.i = v.i
           /\ (IF c.t = "float" THEN c.s ELSE "0") = (IF v.t = "float" THEN v.s ELSE "0")

\* Field.choice_validator / ListField.choice_validator
choice_validator(st, f, value) ==
    LET vs == IF f.islist THEN st.heap[value.i].elems ELSE <<value>>
        unhashable == \E j \in DOMAIN vs : vs[j].t = "ref" /\ ~IsRec(st.heap, vs[j])
        bad == \E j \in DOMAIN vs : ~py_in(vs[j], f.choices)
    IN IF f.islist /\ ~IsList(st.heap, value)
       THEN Raise(st, "TypeError", <<>>, "not iterable")
       ELSE IF bad /\ ~unhashable
       THEN Raise(st, "ValidationError", <<>>, "not a valid choice")
       ELSE IF unhashable THEN Raise(st, "TypeError", <<>>, "unhashable")
       ELSE Ret(st, BoolV(TRUE))

\* a variant: the choice validator ahead of the user's validators
validators_choice_first(f) ==
    (IF f.choices # {} THEN <<"choice">> ELSE <<>>) \o f.validators

\* Field.base_validators appended to the user's validators
validators_of(f) == f.validators \o (IF f.choices # {} THEN <<"choice">> ELSE <<>>)

\* one validator applied to the value: the user validators are
\* accept (returns True), reject (returns False), raises (raises
\* ValidationError('Wrong')), throws (raises ValueError('Bad'))
run_validator(st, f, name, value, prefixed) ==
    IF name = "choice" THEN choice_validator(st, f, value)
    ELSE Bind(Call(st, name, prefixed, value), LAMBDA c :
             CASE name = "accept" -> Ret(c, BoolV(TRUE))
               [] name = "reject" -> Ret(c, BoolV(FALSE))
               [] name = "throws" -> Raise(c, "ValueError", <<>>, "Bad")
               [] OTHER -> Raise(c, "ValidationError", <<>>, "Wrong"))

RECURSIVE validators_loop(_, _, _, _, _)
validators_loop(st, f, j, value, prefixed) ==
    IF j > Len(validators_of(f)) THEN Ret(st, value)
    ELSE Bind(run_validator(st, f, validators_of(f)[j], value, prefixed), LAMBDA r :
             IF Failed(r)
             THEN IF r.err.kind = "ValidationError"
                  THEN Raise(r, "ValidationError", prefixed, r.err.msg)
                  ELSE r
             ELSE IF r.val = BoolV(FALSE)
                  THEN Raise(r, "ValidationError", prefixed, "is invalid")
                  ELSE validators_loop(r, f, j + 1, value, prefixed))

\* a variant: the validators run whether or not the field exists
validate_always(st, f, normalized, prefixed, exists) ==
    IF validators_of(f) = <<>> THEN Ret(st, normalized)
    ELSE validators_loop(st, f, 1, normalized, prefixed)

\* Field.validate(normalized, prefixed, exists)
Field_validate(st, f, normalized, prefixed, exists) ==
    IF ~(exists /\ validators_of(f) # <<>>) THEN Ret(st, normalized)
    ELSE validators_loop(st, f, 1, normalized, prefixed)

\* Field.normalize_field(type_, field_value, name, prefixed, parent)
Field_normalize_field(st, f, type_, field_value, prefixed, parent, pk) ==
    IF invalid_type(st, f, type_, field_value)
    THEN Raise(st, "ValidationError", prefixed, "is not of type")
    ELSE IF field_value = None THEN Ret(st, None)
    ELSE IF type_ \in Classes
         THEN Then(normalize(st, type_, field_value, prefixed, None, pk),
                   LAMBDA n : coerce(n, n.val, type_, parent, pk))
    ELSE coerce(st, field_value, type_, None, pk)

\* ListField.is_list(field_value)
is_list(h, f, field_value) ==
    IF field_value = None THEN ~f.required /\ f.default = NotSpecified
    ELSE IsList(h, field_value)

\* a variant: the elements are normalized under the path of the list
elements_loop_no_index(st, f, type_, elems, j, values, prefixed, parent, pk) ==
    IF j > Len(elems) THEN Ret(st, Ref(values))
    ELSE Then(Field_normalize_field(st, f, type_, elems[j], prefixed, parent, pk),
              LAMBDA r :
                 elements_loop([r EXCEPT !.heap[values].elems = Append(@, r.val)],
                               f, type_, elems, j + 1, values, prefixed, parent, pk))

\* the loop of ListField.normalize_field; values is the address of the new list
elements_loop(st, f, type_, elems, j, values, prefixed, parent, pk) ==
    IF j > Len(elems) THEN Ret(st, Ref(values))
    ELSE Then(Field_normalize_field(st, f, type_, elems[j],
                   Append(prefixed, ToString(j - 1)), parent, pk),
              LAMBDA r :
                 elements_loop([r EXCEPT !.heap[values].elems = Append(@, r.val)],
                               f, type_, elems, j + 1, values, prefixed, parent, pk))

\* ListField.normalize_field(type_, field_value, name, prefixed, parent)
ListField_normalize_field(st, f, type_, field_value, prefixed, parent, pk) ==
    IF ~is_list(st.heap, f, field_value)
    THEN Raise(st, "ValidationError", prefixed, "is not a list")
    ELSE LET elems == IF field_value = None THEN <<>> ELSE st.heap[field_value.i].elems
             values == Len(st.heap) + 1
         IN elements_loop([st EXCEPT !.heap = Append(@, ListObj(<<>>))],
                          f, type_, elems, 1, values, prefixed, parent, pk)

\* the loop over self.types of Field.normalize
types_loop(st, f, j, normalized, prefixed, parent, pk) ==
    IF j > Len(f.types) THEN Ret(st, normalized)
    ELSE Then(IF f.islist
              THEN ListField_normalize_field(st, f, f.types[j], normalized,
                                             prefixed, parent, pk)
              ELSE Field_normalize_field(st, f, f.types[j], normalized,
                                         prefixed, parent, pk),
              LAMBDA r : types_loop(r, f, j + 1, r.val, prefixed, parent, pk))

\* the key Field.normalize looks up: self._key or name
config_key(f) == IF f.key # "" THEN f.key ELSE f.name

\* a variant of the test: a default stands in for a missing required key
missing_required_unless_default(f, present) ==
    ~present /\ f.required /\ f.default = NotSpecified

\* the test of Field.normalize that raises PropertyError
missing_required(f, present) == ~present /\ f.required

\* a variant: the NotSpecified sentinel is not replaced by None
absent_value_sentinel(f) == f.default

\* the value Field.normalize starts from when the key is absent
absent_value(f) == IF f.default = NotSpecified THEN None ELSE f.default

\* Field.normalize(config, name, prefix, parent)
Field_normalize(st, f, config, prefix, parent, pk) ==
    LET prefixed == Append(prefix, f.name)
        present == st.heap[config.i].items[config_key(f)] # Absent
        exists == present \/ f.default # NotSpecified
        conf_value == IF present THEN st.heap[config.i].items[config_key(f)]
                      ELSE absent_value(f)
        s0 == [st EXCEPT !.entered = Append(@, prefixed)]
    IN IF missing_required(f, present)
       THEN Raise(s0, "PropertyError", prefixed, "Missing property")
       ELSE Then(types_loop(s0, f, 1, conf_value, prefixed, parent, pk), LAMBDA r :
              Then(Field_validate(r, f, r.val, prefixed, exists), LAMBDA w :
                 [w EXCEPT !.returned = Append(@, prefixed)]))

(***************************************************************************)
(* normalizer and Config                                                   *)
(***************************************************************************)
\* the keys of config that the extra-key check of normalize objects to
extra_keys(cls, items) == KeysOf(items) \ FieldNames(cls)

\* the generator consumed by NormalizedDict(...); nd is the new dict
fields_loop(st, cls, j, config, prefix, parent, pk, nd) ==
    IF j > Len(fields[cls]) THEN Ret(st, Ref(nd))
    ELSE Then(Field_normalize(st, fields[cls][j], config, prefix, parent, pk),
              LAMBDA r :
                 fields_loop([r EXCEPT !.heap[nd].items[fields[cls][j].name] = r.val],
                             cls, j + 1, config, prefix, parent, pk, nd))

\* a variant: the fields are normalized first, the extra keys are looked
\* for afterwards
normalize_fields_first(st, cls, config, prefix, parent, pk) ==
    IF ~IsDict(st.heap, config)
    THEN Raise(st, "TypeError", <<>>, "object is not iterable")
    ELSE LET extra == extra_keys(cls, st.heap[config.i].items)
             nd == Len(st.heap) + 1
         IN Then(fields_loop([st EXCEPT !.heap = Append(@, NormalizedDict(EmptyItems))],
                             cls, 1, config, prefix, parent, pk, nd),
                 LAMBDA r :
                    IF extra # {} /\ ~allow_extra[cls]
                    THEN Raise(r, "PropertyError",
                               Append(prefix, IF pk \in extra THEN pk
                                              ELSE CHOOSE k \in extra : TRUE),
                               "Encountered unexpected key")
                    ELSE r)

\* cls._normalize(config, prefix, parent); iterating a frozenset has no
\* defined order: pk is the key the iteration happens to yield first
normalize(st, cls, config, prefix, parent, pk) ==
    IF ~IsDict(st.heap, config)
    THEN Raise(st, "TypeError", <<>>, "object is not iterable")
    ELSE LET extra == extra_keys(cls, st.heap[config.i].items)
             nd == Len(st.heap) + 1
         IN IF extra # {} /\ ~allow_extra[cls]
            THEN Raise(st, "PropertyError",
                       Append(prefix, IF pk \in extra THEN pk
                                      ELSE CHOOSE k \in extra : TRUE),
                       "Encountered unexpected key")
            ELSE fields_loop([st EXCEPT !.heap = Append(@, NormalizedDict(EmptyItems))],
                             cls, 1, config, prefix, parent, pk, nd)

\* dict.update(kwargs) on the items of a dict
updated(items, kwargs) ==
    [k \in Keys |-> IF kwargs[k] # Absent THEN kwargs[k] ELSE items[k]]

\* a variant: properties.update(kwargs) on the caller's mapping, then a copy
update_in_place(h, properties, kwargs) ==
    LET h1 == [h EXCEPT ![properties.i].items = updated(@, kwargs)]
    IN Append(h1, DictObj(h1[properties.i].items))

\* combined = properties.copy(); combined.update(kwargs): the heap with
\* the new dict at its end
copy_and_update(h, properties, kwargs) ==
    Append(h, DictObj(updated(h[properties.i].items, kwargs)))

\* Config.__init__(properties, __parent=parent, **kwargs)
Config_init(st, cls, properties, kwargs, parent, pk) ==
    LET self == Len(st.heap) + 1
        h1 == Append(st.heap, RecObj(cls, parent, Unset))
    IN IF KindOf(st.heap, properties) = "ndict"
       THEN [st EXCEPT !.heap = [h1 EXCEPT ![self].props = properties],
                       !.val = Ref(self)]
       ELSE Bind(copy_and_update(h1, properties, kwargs), LAMBDA h2 :
              Then(normalize([st EXCEPT !.heap = h2], cls, Ref(Len(h2)),
                             <<>>, Ref(self), pk),
                   LAMBDA r : [r EXCEPT !.heap[self].props = r.val, !.val = Ref(self)]))

(***************************************************************************)
(* The schemas: class Top has the field x under test, optionally followed  *)
(* by y = Field(int, required=True); x may be a Child, Child has           *)
(* g = Field(GC), GC has v = Field(int, required=True).                    *)
(***************************************************************************)
\* objects made at class-definition time: the default values [] and [1]
DefaultsHeap == <<ListObj(<<>>), ListObj(<<IntV(1)>>)>>

DefEmptyList == Ref(1)

DefIntList == Ref(2)

\* required / nullable / default in every combination, Field and ListField
PolicyFields ==
    {[Field("x", <<"int">>) EXCEPT !.islist = l, !.required = r, !.nullable = n,
                                   !.default = d]
     : l \in {FALSE}, r \in BOOLEAN, n \in BOOLEAN,
       d \in {NotSpecified, None, IntV(1)}}
    \cup
    {[ListField("x", <<"int">>) EXCEPT !.required = r, !.nullable = n, !.default = d]
     : r \in BOOLEAN, n \in BOOLEAN, d \in {NotSpecified, None, DefIntList}}

\* a key alias
AliasFields ==
    {[Field("x", <<"int">>) EXCEPT !.key = "@x", !.required = r] : r \in BOOLEAN}

\* nested schemas, single and in a list, with and without user code
NestedFields ==
    {[Field("x", <<"Child">>) EXCEPT !.islist = l, !.validators = vs]
     : l \in BOOLEAN, vs \in {<<>>, <<"accept">>}}
    \cup {Field("x", <<"Child", "fn_same">>)}

\* a mutable built-in type, a transform function, a writable field
OtherFields ==
    {Field("x", <<"list">>),
     [Field("x", <<"list">>) EXCEPT !.default = DefEmptyList],
     Field("x", <<"fn_inc">>),
     [Field("x", <<"int">>) EXCEPT !.read_only = FALSE]}

XFields == PolicyFields \cup AliasFields \cup NestedFields \cup OtherFields

YField == [Field("y", <<"int">>) EXCEPT !.required = TRUE]

ClassTable(x, withY, aeTop, aeChild) ==
    [fields |-> [c \in Classes |->
                   CASE c = "Top" -> IF withY THEN <<x, YField>> ELSE <<x>>
                     [] c = "Child" -> <<Field("g", <<"GC">>)>>
                     [] OTHER -> <<[Field("v", <<"int">>) EXCEPT !.required = TRUE]>>],
     allow_extra |-> [c \in Classes |->
                   CASE c = "Top" -> aeTop
                     [] c = "Child" -> aeChild
                     [] OTHER -> TRUE]]

ClassTables ==
    {ClassTable(x, withY, aeTop, TRUE)
     : x \in XFields \ NestedFields, withY \in BOOLEAN, aeTop \in BOOLEAN}
    \cup
    {ClassTable(x, withY, aeTop, aeChild)
     : x \in NestedFields, withY \in BOOLEAN, aeTop \in BOOLEAN, aeChild \in BOOLEAN}

(***************************************************************************)
(* The caller's inputs                                                     *)
(***************************************************************************)
FEmpty == FDict(<<>>, <<>>)

FGC == FDict(<<"v">>, <<FS(IntV(1))>>)

FChild == FDict(<<"g">>, <<FGC>>)

FChildNoV == FDict(<<"g">>, <<FEmpty>>)

\* the values given under the key of x
XValues ==
    {FS(None), FS(IntV(1)), FS(StrV("a")),
     FList(<<>>), FList(<<FS(IntV(1))>>), FList(<<FS(None)>>),
     FList(<<FS(IntV(1)), FS(StrV("a"))>>),
     FEmpty, FChild, FChildNoV,
     FDict(<<"g", "z">>, <<FGC, FS(IntV(3))>>),
     FList(<<FChild>>), FList(<<FEmpty, FChildNoV>>), FList(<<FChild, FS(None)>>)}

XEntries ==
    {<<"x", v>> : v \in XValues} \cup {<<"@x", v>> : v \in {FS(IntV(1)), FS(None)}}

\* the raw mappings: x (under its name or its alias) or not, y or not,
\* the undeclared key z or not
RawInputs ==
    {FDict(<<e[1]>> \o yk \o zk,
           <<e[2]>> \o [j \in DOMAIN yk |-> FS(IntV(2))] \o [j \in DOMAIN zk |-> FS(IntV(3))])
     : e \in XEntries, yk \in {<<>>, <<"y">>}, zk \in {<<>>, <<"z">>}}
    \cup
    {FDict(yk \o zk,
           [j \in DOMAIN yk |-> FS(IntV(2))] \o [j \in DOMAIN zk |-> FS(IntV(3))])
     : yk \in {<<>>, <<"y">>}, zk \in {<<>>, <<"z">>}}

\* the keyword arguments given with the raw mapping
KwargsChoices == {EmptyItems, [EmptyItems EXCEPT !["x"] = IntV(2)]}

\* the keys an iteration over the extra keys may yield first
PkChoices == {"@x", "y", "z"}

(***************************************************************************)
(* The state machine                                                       *)
(***************************************************************************)
Last(op, cls, raw, input, kwargs, r) ==
    [op |-> op, cls |-> cls, raw |-> raw, input |-> input, kwargs |-> kwargs,
     err |-> r.err, val |-> r.val, calls |-> r.calls,
     entered |-> r.entered, returned |-> r.returned]

Init ==
    /\ \E t \in ClassTables : fields = t.fields /\ allow_extra = t.allow_extra
    /\ heap = DefaultsHeap
    /\ records = {}
    /\ raws = {}
    /\ defs = <<Def("GC", <<>>, fields["GC"], ""), Def("Child", <<>>, fields["Child"], ""),
                Def("Top", <<>>, fields["Top"], "")>>
    /\ dicts = {}
    /\ fresh = {}
    /\ last = Last("init", "", None, {}, EmptyItems, St(<<>>, <<>>))
    /\ nops = 0

\* the caller builds a raw mapping and calls Top(raw, **kwargs)
ConstructNew(frag, kwargs, pk) ==
    \E ld \in {Load(heap, frag)} :
    \E r \in {Config_init(St(ld.heap, <<>>), "Top", ld.val, kwargs, None, pk)} :
       /\ heap' = r.heap
       /\ records' = IF Failed(r) THEN records ELSE records \cup {r.val.i}
       /\ fresh' = IF Failed(r) THEN fresh ELSE fresh \cup {r.val.i}
       /\ raws' = raws \cup {ld.val.i}
       /\ last' = Last("construct", "Top", ld.val, View(ld.heap, ld.val, <<>>), kwargs, r)
       /\ nops' = nops + 1
       /\ UNCHANGED <<fields, allow_extra, defs, dicts>>

\* the caller calls Top(raw) on a mapping it already holds
ConstructFrom(raw) ==
    \E r \in {Config_init(St(heap, <<>>), "Top", Ref(raw), EmptyItems, None, "z")} :
       /\ heap' = r.heap
       /\ records' = IF Failed(r) THEN records ELSE records \cup {r.val.i}
       /\ fresh' = IF Failed(r) THEN fresh ELSE fresh \cup {r.val.i}
       /\ last' = Last("construct", "Top", Ref(raw), View(heap, Ref(raw), <<>>),
                       EmptyItems, r)
       /\ nops' = nops + 1
       /\ UNCHANGED <<fields, allow_extra, defs, raws, dicts>>

\* the caller calls Top({'x': self.x}) with the value an instance holds
ConstructHolding(self) ==
    \E h1 \in {Append(heap, DictObj([EmptyItems EXCEPT
                     !["x"] = heap[heap[self].props.i].items["x"]]))} :
    \E r \in {Config_init(St(h1, <<>>), "Top", Ref(Len(h1)), EmptyItems, None, "z")} :
       /\ heap' = r.heap
       /\ records' = IF Failed(r) THEN records ELSE records \cup {r.val.i}
       /\ fresh' = IF Failed(r) THEN fresh ELSE fresh \cup {r.val.i}
       /\ raws' = raws \cup {Len(h1)}
       /\ last' = Last("construct", "Top", Ref(Len(h1)), View(h1, Ref(Len(h1)), <<>>),
                       EmptyItems, r)
       /\ nops' = nops + 1
       /\ UNCHANGED <<fields, allow_extra, defs, dicts>>

\* Config.copy(): dict.copy() of the NormalizedDict is a plain dict
Config_copy(st, self) ==
    LET copied == DictObj(st.heap[st.heap[self].props.i].items)
    IN Config_init([st EXCEPT !.heap = Append(@, copied)], st.heap[self].cls,
                   Ref(Len(st.heap) + 1), EmptyItems, None, "z")

Copy(self) ==
    \E r \in {Config_copy(St(heap, <<>>), self)} :
       /\ heap' = r.heap
       /\ records' = IF Failed(r) THEN records ELSE records \cup {r.val.i}
       /\ fresh' = IF Failed(r) THEN fresh ELSE fresh \cup {r.val.i}
       /\ last' = Last("copy", heap[self].cls, Ref(self), View(heap, Ref(self), <<>>),
                       EmptyItems, r)
       /\ nops' = nops + 1
       /\ UNCHANGED <<fields, allow_extra, defs, raws, dicts>>

\* Config.update(**{key: value})
Config_update(h, self, key, value) ==
    [h EXCEPT ![h[self].props.i].items[key] = value]

Update(self, key, value) ==
    /\ heap' = Config_update(heap, self, key, value)
    /\ last' = Last("update", heap[self].cls, Ref(self), View(heap, Ref(self), <<>>),
                    [EmptyItems EXCEPT ![key] = value], St(heap, <<>>))
    /\ fresh' = fresh \ {self}
    /\ nops' = nops + 1
    /\ UNCHANGED <<fields, allow_extra, defs, records, raws, dicts>>

\* the setter of autoproperty(key, read_only=field.read_only)
setter(st, self, key, value) ==
    IF FieldOf(st.heap[self].cls, key).read_only
    THEN Raise(st, "AttributeError", <<>>, "can't set attribute")
    ELSE [st EXCEPT !.heap[st.heap[self].props.i].items[key] = value]

\* self.<key> = value for a field of the class
SetAttr(self, key, value) ==
    \E r \in {setter(St(heap, <<>>), self, key, value)} :
       /\ heap' = r.heap
       /\ last' = Last("setattr", heap[self].cls, Ref(self),
                       View(heap, Ref(self), <<>>), [EmptyItems EXCEPT ![key] = value], r)
       /\ fresh' = fresh \ {self}
       /\ nops' = nops + 1
       /\ UNCHANGED <<fields, allow_extra, defs, records, raws, dicts>>

\* a variant: the accessor reads the mapping's key of the field
getter_by_key(st, self, key) ==
    Bind(st.heap[st.heap[self].props.i].items[config_key(FieldOf(st.heap[self].cls, key))],
         LAMBDA v : Ret(st, IF v = Absent THEN None ELSE v))

\* the getter of autoproperty(key): self._properties.get(key)
getter(st, self, key) ==
    Bind(st.heap[st.heap[self].props.i].items[key],
         LAMBDA v : Ret(st, IF v = Absent THEN None ELSE v))

\* self.<key> for a field of the class
GetAttr(self, key) ==
    \E r \in {getter(St(heap, <<>>), self, key)} :
       /\ heap' = r.heap
       /\ last' = Last("getattr", heap[self].cls, Ref(self),
                       View(heap, Ref(self), <<>>), [EmptyItems EXCEPT ![key] = None], r)
       /\ fresh' = fresh \ {self}
       /\ nops' = nops + 1
       /\ UNCHANGED <<fields, allow_extra, defs, records, raws, dicts>>

\* value.parent for the instance held under x: the property ConfigMeta
\* enters into the class for a field of that name comes before Config.parent
Parent(self) ==
    \E held \in {heap[heap[self].props.i].items["x"].i} :
    \E r \in {IF "parent" \in FieldNames(heap[held].cls)
               THEN getter(St(heap, <<>>), held, "parent")
               ELSE Ret(St(heap, <<>>), heap[held].parent)} :
       /\ last' = Last("parent", heap[self].cls, Ref(self),
                       View(heap, Ref(self), <<>>), EmptyItems, r)
       /\ nops' = nops + 1
       /\ UNCHANGED <<fields, allow_extra, defs, heap, records, raws, dicts, fresh>>

RECURSIVE to_dict(_, _)
RECURSIVE call_to_dict(_, _)
RECURSIVE to_dict_items(_, _, _, _)
RECURSIVE to_dict_list(_, _, _, _)

\* [item.to_dict() for item in value]; out is the address of the new list
to_dict_list(st, elems, j, out) ==
    IF j > Len(elems) THEN Ret(st, Ref(out))
    ELSE IF ~IsRec(st.heap, elems[j])
         THEN Raise(st, "AttributeError", <<>>, "has no attribute 'to_dict'")
    ELSE Then(call_to_dict(st, elems[j].i), LAMBDA r :
              to_dict_list([r EXCEPT !.heap[out].elems = Append(@, r.val)],
                           elems, j + 1, out))

\* the loop of to_dict over self._properties.items(), in the order KeyOrder
to_dict_items(st, items, j, converted) ==
    IF j > Len(KeyOrder) THEN Ret(st, Ref(converted))
    ELSE LET key == KeyOrder[j]
             value == items[key]
         IN IF value = Absent THEN to_dict_items(st, items, j + 1, converted)
            ELSE Then(IF IsRec(st.heap, value) THEN call_to_dict(st, value.i)
                      ELSE IF IsList(st.heap, value)
                              /\ \E n \in DOMAIN st.heap[value.i].elems :
                                    IsRec(st.heap, st.heap[value.i].elems[n])
                      THEN to_dict_list([st EXCEPT !.heap = Append(@, ListObj(<<>>))],
                                        st.heap[value.i].elems, 1, Len(st.heap) + 1)
                      ELSE Ret(st, value),
                      LAMBDA r :
                         to_dict_items([r EXCEPT !.heap[converted].items[key] = r.val],
                                       items, j + 1, converted))

\* Config.to_dict()
to_dict(st, self) ==
    to_dict_items([st EXCEPT !.heap = Append(@, DictObj(EmptyItems))],
                  st.heap[st.heap[self].props.i].items, 1, Len(st.heap) + 1)

\* self.to_dict(): what the name gives is called, the property of a field of
\* that name before Config.to_dict
call_to_dict(st, self) ==
    IF "to_dict" \in FieldNames(st.heap[self].cls)
    THEN Then(getter(st, self, "to_dict"),
              LAMBDA v : Raise(v, "TypeError", <<>>, "object is not callable"))
    ELSE to_dict(st, self)

ToDict(self) ==
    \E r \in {call_to_dict(St(heap, <<>>), self)} :
       /\ heap' = r.heap
       /\ dicts' = IF Failed(r) THEN dicts ELSE dicts \cup {<<r.val.i, self>>}
       /\ last' = Last("to_dict", heap[self].cls, Ref(self),
                       View(heap, Ref(self), <<>>), EmptyItems, r)
       /\ nops' = nops + 1
       /\ UNCHANGED <<fields, allow_extra, defs, records, raws, fresh>>

\* the lists that are values of the property bag of self
ListsHeldBy(h, self) ==
    {a \in DOMAIN h : /\ h[a].kind = "list"
                      /\ \E k \in Keys : h[h[self].props.i].items[k] = Ref(a)}

\* the caller appends to a list it got from the property bag of self
Mutate(self, a) ==
    /\ heap' = [heap EXCEPT ![a].elems = Append(@, IntV(9))]
    /\ last' = Last("mutate", heap[self].cls, Ref(self), View(heap, Ref(self), <<>>),
                    EmptyItems, Ret(St(heap, <<>>), Ref(a)))
    /\ fresh' = {}
    /\ nops' = nops + 1
    /\ UNCHANGED <<fields, allow_extra, defs, records, raws, dicts>>

\* one construction, from every schema and every input
Next ==
    \E frag \in RawInputs, kwargs \in KwargsChoices, pk \in PkChoices :
        nops = 0 /\ ConstructNew(frag, kwargs, pk)

Spec == Init /\ [][Next]_vars

(***************************************************************************)
(* The life of records: constructions followed by copy, update, accessor   *)
(* writes, to_dict and mutation of held values, on a few schemas           *)
(***************************************************************************)
XFieldsLife ==
    {Field("x", <<"int">>),
     [Field("x", <<"int">>) EXCEPT !.read_only = FALSE],
     [Field("x", <<"int">>) EXCEPT !.key = "@x"],
     [Field("x", <<"int">>) EXCEPT !.key = "@x", !.required = TRUE],
     Field("x", <<"fn_inc">>),
     Field("x", <<"list">>),
     [Field("x", <<"list">>) EXCEPT !.default = DefEmptyList],
     [ListField("x", <<"int">>) EXCEPT !.default = DefIntList],
     Field("x", <<"Child">>),
     ListField("x", <<"Child">>)}

ClassTablesLife ==
    {ClassTable(x, FALSE, TRUE, TRUE) : x \in XFieldsLife}
    \cup {ClassTable(Field("x", <<"int">>), FALSE, FALSE, TRUE)}

RawInputsLife ==
    {FEmpty,
     FDict(<<"x">>, <<FS(IntV(1))>>),
     FDict(<<"@x">>, <<FS(IntV(1))>>),
     FDict(<<"x">>, <<FList(<<FS(IntV(1))>>)>>),
     FDict(<<"x">>, <<FChild>>),
     FDict(<<"x">>, <<FList(<<FChild>>)>>),
     FDict(<<"x">>, <<FList(<<FChild, FS(None)>>)>>)}

\* what update() and the accessors are given
UpdateKeys == {"x", "z"}

UpdateValues == {IntV(5), StrV("a")}

InitLife ==
    /\ \E t \in ClassTablesLife : fields = t.fields /\ allow_extra = t.allow_extra
    /\ heap = DefaultsHeap
    /\ records = {}
    /\ raws = {}
    /\ defs = <<Def("GC", <<>>, fields["GC"], ""), Def("Child", <<>>, fields["Child"], ""),
                Def("Top", <<>>, fields["Top"], "")>>
    /\ dicts = {}
    /\ fresh = {}
    /\ last = Last("init", "", None, {}, EmptyItems, St(<<>>, <<>>))
    /\ nops = 0

\* any operation of the caller, as long as fewer than MaxOps were performed
NextLife ==
    \/ \E frag \in RawInputsLife : nops < MaxOps /\ ConstructNew(frag, EmptyItems, "z")
    \/ \E raw \in raws \cup {d[1] : d \in dicts} : nops < MaxOps /\ ConstructFrom(raw)
    \/ \E self \in records : nops < MaxOps /\ Copy(self)
    \/ \E self \in records, key \in UpdateKeys, value \in UpdateValues :
          nops < MaxOps /\ Update(self, key, value)
    \/ \E self \in records, value \in UpdateValues : nops < MaxOps /\ SetAttr(self, "x", value)
    \/ \E self \in records : nops < MaxOps /\ ToDict(self)
    \/ \E self \in records : \E a \in ListsHeldBy(heap, self) : nops < MaxOps /\ Mutate(self, a)
    \/ \E self \in records :
          /\ nops < MaxOps /\ heap[heap[self].props.i].items["x"] # Absent
          /\ ConstructHolding(self)

SpecLife == InitLife /\ [][NextLife]_vars

(***************************************************************************)
(* Class statements: every class name is used by one class statement,      *)
(* whose __inherits__ lists existing classes; an instance is made of Top   *)
(* once it exists                                                          *)
(***************************************************************************)
\* the field that the body of class cls declares under a name
DeclField(cls, name) == [Field(name, <<"str">>) EXCEPT !.default = StrV(cls)]

\* the attribute names a class body declares fields under, in order
DctChoices ==
    {<<>>, <<"x">>, <<"y">>, <<"x", "y">>, <<"y", "x">>, <<"__d__">>, <<"x", "__d__">>,
     <<"get">>, <<"x", "update">>, <<"describe", "y">>, <<"copy">>}

\* the lists of one or two distinct classes out of S
InheritsChoices(S) ==
    {<<>>} \cup {<<a>> : a \in S} \cup {p \in S \X S : p[1] # p[2]}

\* class name(Config): __inherits__ = inherits; <dct>
ConfigMeta_new(name, inherits, dct) ==
    \E table \in {merged_fields(inherits, dct)} :
       /\ IF forbidden(table) # {}
          THEN /\ defs' = Append(defs, Def(name, inherits, dct, "ReservedFieldError"))
               /\ last' = Last("define", name, None, {}, EmptyItems,
                               Raise(St(<<>>, <<>>), "ReservedFieldError", <<>>,
                                     "overwrites reserved field"))
               /\ UNCHANGED <<fields, allow_extra>>
          ELSE /\ defs' = Append(defs, Def(name, inherits, dct, ""))
               /\ last' = Last("define", name, None, {}, EmptyItems, St(<<>>, <<>>))
               /\ fields' = [fields EXCEPT ![name] = table]
               /\ allow_extra' = [allow_extra EXCEPT ![name] = TRUE]
       /\ UNCHANGED <<heap, records, raws, dicts, fresh, nops>>

InitDef ==
    /\ fields = [c \in Classes |-> <<>>]
    /\ allow_extra = [c \in Classes |-> TRUE]
    /\ defs = <<>>
    /\ heap = DefaultsHeap
    /\ records = {}
    /\ raws = {}
    /\ dicts = {}
    /\ fresh = {}
    /\ last = Last("init", "", None, {}, EmptyItems, St(<<>>, <<>>))
    /\ nops = 0

\* the mappings of the model hold the keys Keys
NextDef ==
    \/ \E name \in Classes \ {defs[j].name : j \in DOMAIN defs} :
       \E inherits \in InheritsChoices(Defined), names \in DctChoices :
          ConfigMeta_new(name, inherits, [j \in DOMAIN names |-> DeclField(name, names[j])])
    \/ \E frag \in {FEmpty, FDict(<<"x">>, <<FS(StrV("a"))>>)} :
          /\ nops = 0 /\ "Top" \in Defined /\ FieldNames("Top") \subseteq Keys
          /\ ConstructNew(frag, EmptyItems, "z")

SpecDef == InitDef /\ [][NextDef]_vars

(***************************************************************************)
(* Fields with validators, choices, several coercion steps and lists: one  *)
(* construction of Top from a mapping that gives x or not                  *)
(***************************************************************************)
\* the user validators a field is declared with, in order
ValidatorLists ==
    {<<>>, <<"accept">>, <<"reject">>, <<"raises">>, <<"throws">>,
     <<"accept", "accept">>, <<"accept", "reject">>, <<"accept", "raises">>,
     <<"reject", "raises">>, <<"raises", "accept">>, <<"throws", "reject">>}

ChoiceSets == {{}, {IntV(1), IntV(2)}}

\* validators and choices on a single value and on a list
ValidatedFields ==
    {[Field("x", <<"int">>) EXCEPT !.validators = vs, !.choices = cs, !.default = d]
     : vs \in ValidatorLists, cs \in ChoiceSets, d \in {NotSpecified, IntV(1), IntV(0)}}
    \cup
    {[ListField("x", <<"int">>) EXCEPT !.validators = vs, !.choices = cs, !.default = d]
     : vs \in {<<>>, <<"accept">>, <<"reject">>}, cs \in ChoiceSets,
       d \in {NotSpecified, DefIntList, DefEmptyList}}
    \cup
    {[Field("x", <<"int">>) EXCEPT !.nullable = FALSE, !.validators = <<"accept">>,
                                   !.choices = cs] : cs \in ChoiceSets}

\* the coercion steps a field is declared with, left to right
StepLists ==
    {<<"int">>, <<"str">>, <<"bool">>, <<"str", "int">>, <<"int", "str">>,
     <<"bool", "int">>, <<"fn_inc", "str">>, <<"int", "fn_inc">>,
     <<"fn_inc", "fn_inc">>, <<"fn_same", "int">>, <<"Child", "fn_same">>}

SteppedFields ==
    {[Field("x", ts) EXCEPT !.nullable = n, !.default = d]
     : ts \in StepLists, n \in BOOLEAN, d \in {NotSpecified, StrV("1")}}

ListFields ==
    {[ListField("x", ts) EXCEPT !.required = r, !.default = d]
     : ts \in {<<"int">>, <<"str">>, <<"fn_inc">>, <<"str", "int">>}, r \in BOOLEAN,
       d \in {NotSpecified, DefIntList, DefEmptyList}}
    \cup {ListField("x", <<"Child">>), Field("x", <<"Child">>)}

XFieldsField == ValidatedFields \cup SteppedFields \cup ListFields

ClassTablesField ==
    {ClassTable(x, FALSE, TRUE, ae) : x \in XFieldsField, ae \in BOOLEAN}

\* the values given under x
XValuesField ==
    {FS(None), FS(IntV(0)), FS(IntV(1)), FS(IntV(2)), FS(BoolV(TRUE)),
     FS(StrV("1")), FS(StrV("a")), FS(StrV("yes")),
     FList(<<>>), FList(<<FS(IntV(1))>>), FList(<<FS(None)>>),
     FList(<<FS(IntV(1)), FS(StrV("a"))>>), FList(<<FS(StrV("a")), FS(IntV(1))>>),
     FList(<<FS(IntV(2)), FS(StrV("1"))>>), FList(<<FS(IntV(1)), FS(IntV(0))>>),
     FList(<<FS(IntV(0)), FS(IntV(1)), FS(IntV(2))>>),
     FEmpty, FChild, FChildNoV,
     FDict(<<"g">>, <<FDict(<<"v">>, <<FS(StrV("a"))>>)>>),
     FDict(<<"g">>, <<FS(IntV(1))>>),
     FDict(<<"g", "z">>, <<FGC, FS(IntV(3))>>),
     FDict(<<"g">>, <<FDict(<<"v", "z">>, <<FS(IntV(1)), FS(IntV(3))>>)>>),
     FList(<<FChild>>), FList(<<FChild, FChildNoV>>), FList(<<FChild, FS(IntV(1))>>),
     FList(<<FChild, FDict(<<"g">>, <<FDict(<<"v">>, <<FS(StrV("a"))>>)>>)>>),
     FList(<<FChild, FChild, FDict(<<"z">>, <<FS(IntV(3))>>)>>)}

RawInputsField == {FEmpty} \cup {FDict(<<"x">>, <<v>>) : v \in XValuesField}

InitField ==
    /\ \E t \in ClassTablesField : fields = t.fields /\ allow_extra = t.allow_extra
    /\ heap = DefaultsHeap
    /\ records = {}
    /\ raws = {}
    /\ defs = <<Def("GC", <<>>, fields["GC"], ""), Def("Child", <<>>, fields["Child"], ""),
                Def("Top", <<>>, fields["Top"], "")>>
    /\ dicts = {}
    /\ fresh = {}
    /\ last = Last("init", "", None, {}, EmptyItems, St(<<>>, <<>>))
    /\ nops = 0

NextField ==
    \E frag \in RawInputsField : nops = 0 /\ ConstructNew(frag, EmptyItems, "z")

SpecField == InitField /\ [][NextField]_vars

(***************************************************************************)
(* Boolean fields: one construction of Top from a mapping that gives x     *)
(***************************************************************************)
\* the state after the class statements of one of the given tables
InitTables(tables) ==
    /\ \E t \in tables : fields = t.fields /\ allow_extra = t.allow_extra
    /\ heap = DefaultsHeap
    /\ records = {}
    /\ raws = {}
    /\ defs = <<Def("GC", <<>>, fields["GC"], ""), Def("Child", <<>>, fields["Child"], ""),
                Def("Top", <<>>, fields["Top"], "")>>
    /\ dicts = {}
    /\ fresh = {}
    /\ last = Last("init", "", None, {}, EmptyItems, St(<<>>, <<>>))
    /\ nops = 0

\* x is a bool, a str turned into a bool, or a list of bools
ClassTablesBool ==
    {ClassTable(x, FALSE, ae, TRUE)
     : x \in {[Field("x", ts) EXCEPT !.nullable = n]
              : ts \in {<<"bool">>, <<"str", "bool">>}, n \in BOOLEAN}
             \cup {ListField("x", <<"bool">>)},
       ae \in BOOLEAN}

\* x is not given, or it is a value of _TRUTHY or _FALSEY, another scalar,
\* a list or a mapping
RawInputsBool ==
    {FEmpty}
    \cup {FDict(<<"x">>, <<FS(v)>>)
          : v \in {IntV(1), StrV("true"), StrV("True"), StrV("yes"), StrV("1"), BoolV(TRUE),
                   IntV(0), StrV("false"), StrV("False"), StrV("no"), StrV("0"),
                   BoolV(FALSE),
                   IntV(2), StrV("a"), StrV("TRUE"), StrV(""), None,
                   FloatV(1, "0"), FloatV(0, "0"), FloatV(1, "5")}}
    \cup {FDict(<<"x">>, <<v>>)
          : v \in {FList(<<>>), FList(<<FS(IntV(1))>>), FEmpty,
                   FList(<<FS(BoolV(TRUE)), FS(StrV("no"))>>),
                   FList(<<FS(StrV("yes")), FS(IntV(2))>>)}}

NextBool ==
    \E frag \in RawInputsBool : nops = 0 /\ ConstructNew(frag, EmptyItems, "z")

SpecBool == InitTables(ClassTablesBool) /\ [][NextBool]_vars

(***************************************************************************)
(* The accessors of a class with two fields, each read-only or not         *)
(***************************************************************************)
ClassTablesAttr ==
    {[ClassTable(x, TRUE, TRUE, TRUE) EXCEPT !.fields["Top"][2] = y]
     : x \in {[Field("x", ts) EXCEPT !.read_only = ro, !.key = k]
              : ts \in {<<"int">>, <<"Child">>}, ro \in BOOLEAN, k \in {"", "@x"}},
       y \in {[Field("y", <<"int">>) EXCEPT !.read_only = ro] : ro \in BOOLEAN}}

NextAttr ==
    \/ \E frag \in {FEmpty,
                     FDict(<<"x", "y">>, <<FS(IntV(1)), FS(IntV(2))>>),
                     FDict(<<"@x", "y">>, <<FS(IntV(1)), FS(IntV(2))>>),
                     FDict(<<"x">>, <<FChild>>),
                     FDict(<<"@x", "y">>, <<FChild, FS(IntV(2))>>)} :
          nops = 0 /\ ConstructNew(frag, EmptyItems, "z")
    \/ \E self \in records, key \in {"x", "y"} : nops < MaxOps /\ GetAttr(self, key)
    \/ \E self \in records, key \in {"x", "y"}, value \in UpdateValues :
          nops < MaxOps /\ SetAttr(self, key, value)

SpecAttr == InitTables(ClassTablesAttr) /\ [][NextAttr]_vars

(***************************************************************************)
(* describe().  A text is the sequence of its lines; a line is the number  *)
(* of spaces it begins with, the field's name and the properties between   *)
(* the parentheses.  A line of nothing but spaces has no name.             *)
(***************************************************************************)
\* the strings sorted() meets, in the ascending order of Python's str
StrOrder == <<"@x", "a", "b", "g", "v", "x", "y", "z">>

StrRank(s) == CHOOSE i \in DOMAIN StrOrder : StrOrder[i] = s

\* sorted(names)
RECURSIVE sorted_names(_)
sorted_names(S) ==
    IF S = {} THEN <<>>
    ELSE Bind(CHOOSE n \in S : \A o \in S : StrRank(n) <= StrRank(o),
              LAMBDA m : <<m>> \o sorted_names(S \ {m}))

\* sorted(self.choices) for choices that compare with one another: numbers
\* by their value, strs by their place among the strs
RECURSIVE sorted_choices(_)
sorted_choices(S) ==
    IF S = {} THEN <<>>
    ELSE Bind(CHOOSE n \in S : \A o \in S :
                 (IF n.t = "str" THEN StrRank(n.s) ELSE n.i)
                    <= (IF o.t = "str" THEN StrRank(o.s) ELSE o.i),
              LAMBDA m : <<m>> \o sorted_choices(S \ {m}))

\* the number of choices above which the text ends the list with ', ...'
MaxChoices == 10

NoProps ==
    [type |-> "", required |-> FALSE, default |-> NotSpecified, nonnullable |-> FALSE,
     choices |-> <<>>, marker |-> FALSE]

IsBlank(line) == line.name = "" /\ line.props = NoProps

\* Field.pretty_type and ListField.pretty_type: the __name__ of Field.type,
\* which asserts that there is one type
pretty_type(st, f) ==
    IF Len(f.types) # 1
    THEN Raise(st, "AssertionError", <<>>, "Field should only have one type")
    ELSE Ret(st, StrV(IF f.islist THEN "list(" \o f.types[1] \o ")" ELSE f.types[1]))

\* Field.describe_properties; sorted() of a str and a number is a TypeError
describe_properties(st, f) ==
    Then(pretty_type(st, f),
         LAMBDA t :
           IF \E a \in f.choices, b \in f.choices : a.t = "str" /\ b.t # "str"
           THEN Raise(t, "TypeError", <<>>, "'<' not supported")
           ELSE Ret(t, [type |-> t.val.s,
                        required |-> f.required,
                        default |-> f.default,
                        nonnullable |-> ~f.nullable,
                        choices |-> sorted_choices(f.choices),
                        marker |-> Cardinality(f.choices) > MaxChoices]))

\* value.strip(): no spaces and no line ends at either end of the text
RECURSIVE strip(_)
strip(lines) ==
    IF lines = <<>> THEN <<>>
    ELSE IF IsBlank(lines[1]) THEN strip(Tail(lines))
    ELSE IF IsBlank(lines[Len(lines)]) THEN strip(SubSeq(lines, 1, Len(lines) - 1))
    ELSE [lines EXCEPT ![1].spaces = 0]

\* indent(value, size=2); ''.split('\n') is one empty line
indent(lines) ==
    Bind(IF strip(lines) = <<>> THEN <<[spaces |-> 0, name |-> "", props |-> NoProps]>> ELSE strip(lines),
         LAMBDA ls : [j \in DOMAIN ls |-> [ls[j] EXCEPT !.spaces = @ + 2]])

RECURSIVE Config_describe(_, _)
RECURSIVE describe_loop(_, _, _, _, _)

\* Field.describe; the field has no help and no class has __help__
Field_describe(st, f) ==
    Then(describe_properties(st, f),
         LAMBDA p :
           IF f.types[1] \in Classes
           THEN Then(Config_describe(p, f.types[1]),
                     LAMBDA d : Ret(d, <<[spaces |-> 0, name |-> "", props |-> p.val]>> \o indent(d.val)))
           ELSE Ret(p, <<[spaces |-> 0, name |-> "", props |-> p.val]>>))

\* '{0} {1}'.format(name, cls._fields[name].describe()) for name in names
describe_loop(st, cls, names, j, desc) ==
    IF j > Len(names) THEN Ret(st, desc)
    ELSE Then(Field_describe(st, FieldOf(cls, names[j])),
              LAMBDA d : describe_loop(d, cls, names, j + 1,
                                       desc \o [d.val EXCEPT ![1].name = names[j]]))

\* Config.describe
Config_describe(st, cls) ==
    describe_loop(st, cls,
                  sorted_names({fields[cls][j].name
                                : j \in {i \in DOMAIN fields[cls] : ~fields[cls][i].hidden}}),
                  1, <<>>)

\* cls.describe()
Describe(cls) ==
    \E r \in {Config_describe(St(heap, <<>>), cls)} :
       /\ last' = Last("describe", cls, None, {}, EmptyItems, r)
       /\ nops' = nops + 1
       /\ UNCHANGED <<fields, allow_extra, defs, heap, records, raws, dicts, fresh>>

\* x has a single step, a function or a chain of two steps, is hidden or
\* not, and has no, few, 10, 11 or unorderable choices; the nested class has
\* one field, none that is shown, or one that holds a class all of whose
\* fields are hidden
ClassTablesDescribe ==
    {[fields |-> [c \in Classes |->
                    CASE c = "Top" -> <<[Field("y", <<"int">>) EXCEPT !.hidden = hy], x,
                                        Field("g", <<"Child">>)>>
                      [] c = "Child" -> ch
                      [] OTHER -> <<[Field("v", <<"int">>) EXCEPT !.hidden = TRUE]>>],
      allow_extra |-> [c \in Classes |-> TRUE]]
     : x \in {[Field("x", ts) EXCEPT !.islist = l, !.hidden = h, !.choices = cs,
                                     !.nullable = l]
              : ts \in {<<"int">>, <<"fn_inc">>, <<"str", "int">>, <<"Child">>},
                l \in BOOLEAN, h \in BOOLEAN,
                cs \in {{}, {IntV(2), IntV(1)}, {IntV(i) : i \in 1..10},
                        {IntV(i) : i \in 0..10}, {StrV("b"), StrV("a")},
                        {IntV(1), StrV("a")}}},
       hy \in BOOLEAN,
       ch \in {<<[Field("v", <<"int">>) EXCEPT !.required = TRUE, !.default = IntV(1)]>>,
               <<[Field("v", <<"int">>) EXCEPT !.hidden = TRUE]>>,
               <<Field("v", <<"int">>), Field("g", <<"GC">>)>>,
               <<Field("y", <<"int">>), Field("g", <<"GC">>)>>}}

NextDescribe == \E cls \in Classes : nops = 0 /\ Describe(cls)

SpecDescribe == InitTables(ClassTablesDescribe) /\ [][NextDescribe]_vars

(***************************************************************************)
(* One pass over two fields that both run user code and can both fail      *)
(***************************************************************************)
\* x and y both have a transform and validators, and share none
ClassTablesOrder ==
    {[ClassTable(x, TRUE, aeTop, aeChild) EXCEPT !.fields["Top"][2] = y]
     : x \in {[Field("x", <<"fn_inc">>) EXCEPT !.validators = vs, !.required = r]
              : vs \in {<<>>, <<"accept">>, <<"reject">>}, r \in BOOLEAN}
             \cup {[Field("x", <<"Child">>) EXCEPT !.validators = vs]
                   : vs \in {<<>>, <<"accept">>}},
       y \in {[Field("y", <<"fn_same">>) EXCEPT !.validators = vs, !.required = r]
              : vs \in {<<>>, <<"raises">>}, r \in BOOLEAN},
       aeTop \in BOOLEAN, aeChild \in BOOLEAN}

\* x: a number, a text that is no number, a nested mapping, one with an
\* undeclared key, one without its required value
RawInputsOrder ==
    {FDict(xk \o yk \o zk,
           [j \in DOMAIN xk |-> xv] \o [j \in DOMAIN yk |-> yv]
              \o [j \in DOMAIN zk |-> FS(IntV(3))])
     : xk \in {<<>>, <<"x">>},
       xv \in {FS(IntV(1)), FS(StrV("a")), FChild,
               FDict(<<"g", "z">>, <<FGC, FS(IntV(3))>>),
               FDict(<<"g">>, <<FEmpty>>)},
       yk \in {<<>>, <<"y">>}, yv \in {FS(IntV(2)), FS(StrV("a"))},
       zk \in {<<>>, <<"z">>}}

NextOrder ==
    \E frag \in RawInputsOrder : nops = 0 /\ ConstructNew(frag, EmptyItems, "z")

SpecOrder == InitTables(ClassTablesOrder) /\ [][NextOrder]_vars

(***************************************************************************)
(* Classes with fields named like what Config defines                      *)
(***************************************************************************)
\* the class statements that succeed: a field named like an attribute of
\* Config or none in Top and in Child, and no reserved name among them
ClassTablesShadow ==
    LET Config_attrs == {"parent", "copy", "update", "get", "to_dict", "describe"} IN
    {t \in {[fields |-> [c \in Classes |->
                           CASE c = "Top" -> <<x>> \o ft
                             [] c = "Child" -> <<Field("g", <<"GC">>)>> \o fc
                             [] OTHER -> <<[Field("v", <<"int">>) EXCEPT !.required = TRUE]>>],
             allow_extra |-> [c \in Classes |-> TRUE]]
            : x \in {Field("x", <<"Child">>), ListField("x", <<"Child">>)},
              ft \in {<<>>} \cup {<<Field(n, <<"int">>)>> : n \in Config_attrs},
              fc \in {<<>>} \cup {<<Field(n, <<"int">>)>> : n \in Config_attrs}}
       : \A c \in Classes : forbidden(t.fields[c]) = {}}

NextShadow ==
    \/ \E xv \in {FChild,
                   FDict(<<"g", "to_dict">>, <<FGC, FS(IntV(2))>>),
                   FDict(<<"g", "parent">>, <<FGC, FS(IntV(2))>>),
                   FList(<<FChild>>),
                   FList(<<FDict(<<"g", "to_dict">>, <<FGC, FS(IntV(2))>>)>>)},
             tk \in {<<>>, <<"to_dict">>, <<"parent">>} :
          /\ nops = 0
          /\ ConstructNew(FDict(<<"x">> \o tk, <<xv>> \o [j \in DOMAIN tk |-> FS(IntV(1))]),
                          EmptyItems, "z")
    \/ \E self \in records : nops = 1 /\ ToDict(self)
    \/ \E self \in records :
          /\ nops = 1 /\ IsRec(heap, heap[heap[self].props.i].items["x"])
          /\ Parent(self)

SpecShadow == InitTables(ClassTablesShadow) /\ [][NextShadow]_vars

(***************************************************************************)
(* Properties.  What a construction was given is read off last.input (the  *)
(* raw mapping as it was before the call) and last.kwargs.                 *)
(***************************************************************************)
Range(seq) == {seq[j] : j \in DOMAIN seq}

Constructed == last.op = "construct"

Succeeded == Constructed /\ ~Failed(last)

\* the field under test and the key the mapping must use for it
X == fields["Top"][1]

LookupKey(f) == IF f.key = "" THEN f.name ELSE f.key

\* the combined mapping: the raw mapping overridden by the keyword arguments
GivenView ==
    {f \in last.input : f.p = <<>> \/ last.kwargs[f.p[1]] = Absent}
    \cup {[p |-> <<k>>, m |-> last.kwargs[k]] : k \in KeysOf(last.kwargs)}

Has(view, path) == \E f \in view : f.p = path

At(view, path) == (CHOOSE f \in view : f.p = path).m

GivenKeys == {f.p[1] : f \in {g \in GivenView : Len(g.p) = 1}}

XAbsent == ~Has(GivenView, <<LookupKey(X)>>)

XNull == Has(GivenView, <<LookupKey(X)>>) /\ At(GivenView, <<LookupKey(X)>>) = None

XEntered == <<"x">> \in Range(last.entered)

XReturned == <<"x">> \in Range(last.returned)

XFails(kind) == last.err.kind = kind /\ last.err.path = <<"x">>

\* the value of a property of the instance the last operation returned
PropAt(name) == heap[heap[last.val.i].props.i].items[name]

\* the dotted names of the required fields whose key the given mapping, or
\* a nested mapping in it, does not hold
RECURSIVE MissingRequired(_, _, _, _)
MissingRequired(view, cls, at, name) ==
    UNION {LET f == fields[cls][j]
               kp == Append(at, LookupKey(f))
               np == Append(name, f.name)
           IN (IF f.required /\ ~Has(view, kp) THEN {np} ELSE {})
              \cup
              (IF ~Has(view, kp) \/ f.types[1] \notin Classes THEN {}
               ELSE IF ~f.islist
               THEN IF At(view, kp).t = "dict"
                    THEN MissingRequired(view, f.types[1], kp, np) ELSE {}
               ELSE IF At(view, kp).t # "list" THEN {}
               ELSE UNION {LET e == ToString(n - 1) IN
                           IF At(view, Append(kp, e)).t = "dict"
                           THEN MissingRequired(view, f.types[1],
                                                Append(kp, e), Append(np, e))
                           ELSE {}
                           : n \in 1..At(view, kp).i})
           : j \in DOMAIN fields[cls]}

Missing == MissingRequired(GivenView, "Top", <<>>, <<>>)

\* C1 as stated: when the key of a required field is absent from the mapping
\* (here: of exactly one required field, so that "that field" is unambiguous)
\* normalization fails with PropertyError naming that field
C1_MissingRequiredNamed ==
    (Constructed /\ Cardinality(Missing) = 1) =>
        \A m \in Missing : last.err.kind = "PropertyError" /\ last.err.path = m

\* C1 amended: when the key of a required field is absent, construction
\* fails and yields no instance, whatever default and nullable are; the
\* error is PropertyError "Missing property" naming that field whenever
\* normalization got as far as that field
C1_MissingRequiredFails ==
    Constructed =>
        \A m \in Missing :
            /\ Failed(last) /\ last.val = None /\ records = {}
            /\ m \in Range(last.entered) =>
                  /\ last.err.kind = "PropertyError"
                  /\ last.err.msg = "Missing property"
                  /\ last.err.path = m

\* a required field with a default and nullable=False, its key absent
C1_Witness ==
    /\ Constructed /\ X.required /\ X.default # NotSpecified /\ ~X.nullable
    /\ <<"x">> \in Missing /\ XEntered
    /\ XFails("PropertyError")

\* C2 as stated: an explicit null is rejected with ValidationError when
\* nullable=False and accepted, the value being null, when nullable=True,
\* for Field and for ListField alike
C2_NullFollowsNullable ==
    (Constructed /\ XNull /\ XEntered) =>
        IF ~X.nullable THEN XFails("ValidationError")
        ELSE XReturned /\ (~Failed(last) => PropAt("x") = None)

\* C3 as stated: a non-required field whose key is absent fails with
\* ValidationError when it has default=None and nullable=False, and gets
\* the value null without error when it has no default
C3_AbsentAsStated ==
    (Constructed /\ ~X.required /\ XAbsent /\ XEntered) =>
        /\ (X.default = None /\ ~X.nullable) => XFails("ValidationError")
        /\ X.default = NotSpecified =>
              XReturned /\ (~Failed(last) => PropAt("x") = None)

\* C3 amended: a non-required field whose key is absent fails with
\* ValidationError when it has default=None and nullable=False; with no
\* default a ListField gets the empty list, a Field with nullable=True gets
\* null, both without error, and a Field with nullable=False fails with
\* ValidationError
C3_AbsentNotRequired ==
    (Constructed /\ ~X.required /\ XAbsent /\ XEntered) =>
        /\ (X.default = None /\ ~X.nullable) => XFails("ValidationError")
        /\ X.default = NotSpecified =>
              IF X.islist
              THEN XReturned /\ (~Failed(last) => /\ IsList(heap, PropAt("x"))
                                                  /\ heap[PropAt("x").i].elems = <<>>)
              ELSE IF X.nullable
              THEN XReturned /\ (~Failed(last) => PropAt("x") = None)
              ELSE XFails("ValidationError")

\* a Field without default, nullable=True, key absent: the property is null
C3_Witness ==
    /\ Succeeded /\ ~X.required /\ XAbsent /\ X.default = NotSpecified
    /\ ~X.islist /\ X.nullable /\ X.types = <<"int">>
    /\ PropAt("x") = None

\* every instance held directly by instance r, as a property or as an
\* element of a list property, has r as its parent, and so on below it
RECURSIVE ParentsBelow(_, _)
ParentsBelow(h, r) ==
    LET items == h[h[r].props.i].items
        held == {items[k] : k \in KeysOf(items)}
                \cup UNION {Range(h[v.i].elems)
                            : v \in {w \in {items[k] : k \in KeysOf(items)}
                                     : IsList(h, w)}}
    IN \A v \in held :
          IsRec(h, v) => h[v.i].parent = Ref(r) /\ ParentsBelow(h, v.i)

\* C4 as stated: the top-level instance has parent null, and every nested
\* instance, at any depth, has the instance that directly contains it as
\* its parent
C4_ParentIsContainer ==
    Succeeded =>
        heap[last.val.i].parent = None /\ ParentsBelow(heap, last.val.i)

\* an error about an unexpected key, n levels down
ExtraError(n) ==
    /\ last.err.kind = "PropertyError"
    /\ last.err.msg = "Encountered unexpected key"
    /\ Len(last.err.path) = n

LookupKeys(cls) == {LookupKey(fields[cls][j]) : j \in DOMAIN fields[cls]}

\* the keys of the mapping given under x
NestedKeys == {f.p[2] : f \in {g \in GivenView : Len(g.p) = 2 /\ g.p[1] = "x"}}

\* C5 as stated: the extra keys are those that are no lookup key of a field;
\* with allow_extra=False they are refused with PropertyError naming one of
\* them and a mapping without them is not refused, with allow_extra=True
\* they are dropped, the property keys being the field names; the mapping
\* of a nested schema is under that schema's own policy
C5_ExtraAfterAlias ==
    Constructed =>
        /\ IF allow_extra["Top"]
           THEN ~ExtraError(1)
                /\ (~Failed(last) => KeysOf(heap[heap[last.val.i].props.i].items)
                                        = FieldNames("Top"))
           ELSE IF GivenKeys \ LookupKeys("Top") # {}
           THEN ExtraError(1) /\ last.err.path[1] \in GivenKeys \ LookupKeys("Top")
           ELSE ~ExtraError(1)
        /\ (X.types = <<"Child">> /\ ~X.islist /\ XEntered
            /\ Has(GivenView, <<"x">>) /\ At(GivenView, <<"x">>).t = "dict") =>
               IF ~allow_extra["Child"] /\ NestedKeys \ LookupKeys("Child") # {}
               THEN ExtraError(2) /\ last.err.path[1] = "x"
                    /\ last.err.path[2] \in NestedKeys \ LookupKeys("Child")
               ELSE ~ExtraError(2)

\* C8 as stated: no validator or conversion function is handed a
\* partially built instance, or can reach one from what it is handed, and
\* a failed construction yields no instance
C8_NoPartialInstance ==
    last.op \in {"construct", "copy"} =>
        /\ \A j \in DOMAIN last.calls : ~last.calls[j].partial
        /\ Failed(last) => last.val = None

\* C9: construction leaves the caller's mapping as it was, top-level keys
\* and nested mappings and lists alike, whether it succeeds or fails
C9_RawUnchanged ==
    Constructed => View(heap, last.raw, <<>>) = last.input

\* a successful construction from a mapping with a nested mapping under x,
\* the keyword argument x=2 overriding it
C9_Witness ==
    /\ Succeeded /\ last.kwargs["x"] = IntV(2)
    /\ Has(last.input, <<"x", "g", "v">>)
    /\ PropAt("x") = IntV(2)

\* a copy succeeds without any field being normalized again and returns
\* another instance with the properties the original had
CopyAsIs ==
    last.op = "copy" =>
        /\ ~Failed(last) /\ last.entered = <<>> /\ last.calls = <<>>
        /\ last.val # last.raw
        /\ View(heap, last.val, <<>>) = last.input

\* update() on one instance leaves the properties of every other one alone
UpdateIsLocal ==
    last'.op = "update" =>
        \A r \in records \ {last'.raw.i} :
            View(heap', Ref(r), <<>>) = View(heap, Ref(r), <<>>)

\* C6 as stated: copy() of any instance, fresh or modified, succeeds
\* without normalizing again and returns a distinct instance with equal
\* properties; a later update() of either does not change the other
C6_CopyWithoutRevalidation == [][CopyAsIs' /\ UpdateIsLocal]_vars

\* C7 as stated: to_dict() of a freshly constructed instance succeeds, and
\* constructing from its result succeeds and gives equal properties
C7_RoundTrip ==
    /\ (last.op = "to_dict" /\ last.raw.i \in fresh) => ~Failed(last)
    /\ Constructed =>
          \A d \in dicts :
              (last.raw = Ref(d[1]) /\ d[2] \in fresh) =>
                  /\ ~Failed(last)
                  /\ View(heap, last.val, <<>>) = View(heap, Ref(d[2]), <<>>)

\* C10 as stated: appending to a list held in the property bag of one
\* instance changes no other instance, no field default and no raw mapping
\* of the caller
C10_NoSharedMutableState ==
    [][last'.op = "mutate" =>
          /\ \A r \in records \ {last'.raw.i} :
                View(heap', Ref(r), <<>>) = View(heap, Ref(r), <<>>)
          /\ View(heap', DefEmptyList, <<>>) = View(heap, DefEmptyList, <<>>)
          /\ View(heap', DefIntList, <<>>) = View(heap, DefIntList, <<>>)
          /\ \A m \in raws : View(heap', Ref(m), <<>>) = View(heap, Ref(m), <<>>)]_vars

(***************************************************************************)
(* Properties of class statements                                          *)
(***************************************************************************)
Names(table) == {table[j].name : j \in DOMAIN table}

Lookup(table, name) == table[CHOOSE j \in DOMAIN table : table[j].name = name]

\* the first class of inherits whose table has the name
FirstWith(inherits, name) ==
    inherits[CHOOSE j \in DOMAIN inherits :
                /\ name \in FieldNames(inherits[j])
                /\ \A i \in 1..(j - 1) : name \notin FieldNames(inherits[i])]

\* the table of the class of statement d is the union of the parents' tables
\* and the declared fields; a declared field wins, then the first parent
Merged(d, declared) ==
    LET inherited == UNION {FieldNames(d.inherits[j]) : j \in DOMAIN d.inherits}
    IN /\ FieldNames(d.name) = Names(declared) \cup inherited
       /\ \A n \in FieldNames(d.name) :
             FieldOf(d.name, n) = IF n \in Names(declared) THEN Lookup(declared, n)
                                  ELSE FieldOf(FirstWith(d.inherits, n), n)

\* C11 as stated: the table is the union of the parents' tables and every
\* field the class body declares; own fields win, then the first parent
C11_MergeAllDeclared ==
    \A j \in DOMAIN defs : defs[j].err = "" => Merged(defs[j], defs[j].dct)

\* C11 amended: the same, the own fields being the declared fields whose
\* attribute name does not start with two underscores
C11_MergeOrder ==
    \A j \in DOMAIN defs :
        defs[j].err = "" =>
            Merged(defs[j], SelectSeq(defs[j].dct, LAMBDA f : ~startswith_dunder(f.name)))

\* a class with two parents that declare x differently and no x of its own:
\* its x is the one of the parent listed first
C11_Witness ==
    \E j \in DOMAIN defs :
        /\ defs[j].err = "" /\ Len(defs[j].inherits) = 2
        /\ "x" \notin Names(defs[j].dct)
        /\ "x" \in FieldNames(defs[j].inherits[1]) \cap FieldNames(defs[j].inherits[2])
        /\ FieldOf(defs[j].inherits[1], "x") # FieldOf(defs[j].inherits[2], "x")
        /\ FieldOf(defs[j].name, "x") = FieldOf(defs[j].inherits[1], "x")

\* C12: a class statement whose merged field names include get, update,
\* describe or copy ends with ReservedFieldError; the class does not exist,
\* has no field table and no instance
C12_ReservedRefused ==
    \A j \in DOMAIN defs :
        LET d == defs[j]
            merged == Names(d.dct)
                      \cup UNION {FieldNames(d.inherits[i]) : i \in DOMAIN d.inherits}
        IN merged \cap {"get", "update", "describe", "copy"} # {} =>
              /\ d.err = "ReservedFieldError"
              /\ d.name \notin Defined /\ fields[d.name] = <<>>
              /\ \A a \in DOMAIN heap : heap[a].kind = "rec" => heap[a].cls # d.name

\* a class with a parent declares a field named copy and is refused
C12_Witness ==
    /\ last.op = "define" /\ last.err.kind = "ReservedFieldError"
    /\ \E j \in DOMAIN defs :
          /\ defs[j].name = last.cls /\ defs[j].inherits # <<>>
          /\ "copy" \in Names(defs[j].dct)

\* the user validators of the model
ValidatorNames == {"accept", "reject", "raises", "throws"}

\* the calls of the validators of x, in order
ValidatorCalls ==
    SelectSeq(last.calls, LAMBDA c : c.who \in ValidatorNames /\ c.path = <<"x">>)

\* x exists: its key was given or it has a default
XExists == ~XAbsent \/ X.default # NotSpecified

\* the error of the last operation was raised by the validation of a field
InValidation ==
    Failed(last) /\ last.err.msg \in {"is invalid", "Wrong", "Bad", "not a valid choice"}

\* the coercion steps of x were all applied: x was normalized, or failed
\* in its validators
XCoerced == XReturned \/ (XEntered /\ InValidation /\ last.err.path \in {<<>>, <<"x">>})

FirstBad(vs) ==
    IF \A j \in DOMAIN vs : vs[j] = "accept" THEN 0
    ELSE CHOOSE j \in DOMAIN vs :
            vs[j] # "accept" /\ \A n \in 1..(j - 1) : vs[n] = "accept"

\* the validators of x were called in their declared order up to the first
\* one that does not accept, and no further
CalledInOrder ==
    [j \in DOMAIN ValidatorCalls |-> ValidatorCalls[j].who]
       = IF FirstBad(X.validators) = 0 THEN X.validators
         ELSE SubSeq(X.validators, 1, FirstBad(X.validators))

\* the choice validator runs after the user's validators: when they all
\* accept, the construction can only fail on the choices
ChoiceLast ==
    (FirstBad(X.validators) = 0 /\ Failed(last)) =>
        /\ X.choices # {} /\ XFails("ValidationError")
        /\ last.err.msg = "not a valid choice"

\* C14 as stated: the validators of an existing field run in order, the
\* choice validator last; the first one that returns false or raises any
\* error fails the construction with a ValidationError under the path of the
\* field, the later ones are not run, and the message of a raised error is
\* kept
C14_FirstFailureWrapped ==
    (Constructed /\ XEntered /\ XExists /\ XCoerced) =>
        /\ CalledInOrder /\ ChoiceLast
        /\ FirstBad(X.validators) # 0 =>
              /\ XFails("ValidationError")
              /\ last.err.msg = CASE X.validators[FirstBad(X.validators)] = "raises" -> "Wrong"
                                 [] X.validators[FirstBad(X.validators)] = "throws" -> "Bad"
                                 [] OTHER -> "is invalid"

\* C14 amended: as C14, for a validator that returns false or raises
\* ValidationError; any other error raised by a validator ends the
\* construction as it is, without the path of the field
C14_FirstFailure ==
    (Constructed /\ XEntered /\ XExists /\ XCoerced) =>
        /\ CalledInOrder /\ ChoiceLast
        /\ FirstBad(X.validators) # 0 =>
              IF X.validators[FirstBad(X.validators)] = "throws"
              THEN last.err = [kind |-> "ValueError", path |-> <<>>, msg |-> "Bad"]
              ELSE /\ XFails("ValidationError")
                   /\ last.err.msg = IF X.validators[FirstBad(X.validators)] = "raises"
                                     THEN "Wrong" ELSE "is invalid"

\* the first of two validators raises ValidationError('Wrong'): the second
\* one is not called and the error names x and keeps the message
C14_Witness ==
    /\ Constructed /\ ~XAbsent /\ X.validators = <<"raises", "accept">>
    /\ [j \in DOMAIN last.calls |-> last.calls[j].who] = <<"raises">>
    /\ last.calls[1].arg = IntV(2)
    /\ XFails("ValidationError") /\ last.err.msg = "Wrong"

\* the texts of the list indexes of the model
Indexes == {"0", "1", "2"}

NoPlace == [ok |-> FALSE, cls |-> "", f |-> Field("", <<>>), elem |-> FALSE, vp |-> <<>>]

\* the place a dotted path designates, read from the schemas of the classes:
\* the field f of class cls it ends in, whether it ends in the index of an
\* element of that field, and the path vp of that place in the given mapping
RECURSIVE Place(_, _, _, _)
Place(cls, path, j, vp) ==
    IF j > Len(path) \/ path[j] \notin FieldNames(cls) THEN NoPlace
    ELSE LET f == FieldOf(cls, path[j])
             here == Append(vp, LookupKey(f))
         IN IF j = Len(path)
            THEN [ok |-> TRUE, cls |-> cls, f |-> f, elem |-> FALSE, vp |-> here]
            ELSE IF ~f.islist
            THEN IF f.types[1] \in Classes THEN Place(f.types[1], path, j + 1, here)
                 ELSE NoPlace
            ELSE IF path[j + 1] \notin Indexes THEN NoPlace
            ELSE IF j + 1 = Len(path)
            THEN [ok |-> TRUE, cls |-> cls, f |-> f, elem |-> TRUE,
                  vp |-> Append(here, path[j + 1])]
            ELSE IF f.types[1] \in Classes
            THEN Place(f.types[1], path, j + 2, Append(here, path[j + 1]))
            ELSE NoPlace

ErrPlace == Place("Top", last.err.path, 1, <<>>)

\* the mapping that holds the key the error path ends in: the class it is
\* normalized as and its path in the given mapping
ErrHolder ==
    IF Len(last.err.path) = 1
    THEN [ok |-> TRUE, cls |-> "Top", vp |-> <<>>]
    ELSE LET pl == Place("Top", SubSeq(last.err.path, 1, Len(last.err.path) - 1), 1, <<>>)
         IN [ok |-> pl.ok /\ pl.f.types[1] \in Classes, cls |-> pl.f.types[1], vp |-> pl.vp]

\* what the caller gave at the place, the default when the key is absent
GivenAt(pl) ==
    IF Has(GivenView, pl.vp) THEN At(GivenView, pl.vp) ELSE Mark(heap, absent_value(pl.f))

\* a given value that coercion step type_ of field f does not take
Uncoercible(f, type_, m) ==
    IF m = None THEN ~f.nullable
    ELSE CASE type_ = "int" -> ~(m.t \in {"int", "bool", "float"}
                                 \/ (m.t = "str" /\ IsNumStr(m.s)))
           [] type_ = "bool" -> ~(_TRUTHY(m) \/ _FALSEY(m))
           [] type_ = "list" -> m.t \notin {"list", "str", "dict"}
           [] type_ \in Classes -> m.t # "dict"
           [] OTHER -> FALSE

\* the int that a given value is coerced to
AsInt(m) == IF m.t = "str" THEN IntV(ParseInt(m.s)) ELSE IntV(m.i)

\* what step type_ makes of a given value it takes
StepOf(type_, m) ==
    CASE type_ = "int" -> IF m.t \in {"int", "bool"} THEN m ELSE AsInt(m)
      [] type_ = "str" -> IF m.t = "str" THEN m ELSE py_str(St(<<>>, <<>>), m).val
      [] type_ = "bool" -> BoolV(_TRUTHY(m))
      [] type_ = "fn_inc" -> IF Uncoercible(Field("", <<>>), "int", m) THEN m
                             ELSE IntV(AsInt(m).i + 1)
      [] OTHER -> m

\* one of the steps types[j..] of field f does not take what the steps
\* before it made of the given value m
RECURSIVE ChainFails(_, _, _)
ChainFails(f, j, m) ==
    IF j > Len(f.types) THEN FALSE
    ELSE IF m = None THEN ~f.nullable
    ELSE Uncoercible(f, f.types[j], m) \/ ChainFails(f, j + 1, StepOf(f.types[j], m))

\* a given value whose coerced value is not one of the choices of f
BadChoice(f, m) ==
    m = None \/ (~Uncoercible(f, "int", m) /\ ~py_in(AsInt(m), f.choices))

\* the error path designates what failed, for the errors other than a
\* failed choice
Located ==
    CASE last.err.msg = "Missing property" ->
           /\ ErrHolder.ok /\ Has(GivenView, ErrHolder.vp)
           /\ At(GivenView, ErrHolder.vp).t = "dict"
           /\ last.err.path[Len(last.err.path)] \in FieldNames(ErrHolder.cls)
           /\ FieldOf(ErrHolder.cls, last.err.path[Len(last.err.path)]).required
           /\ ~Has(GivenView, Append(ErrHolder.vp,
                      LookupKey(FieldOf(ErrHolder.cls, last.err.path[Len(last.err.path)]))))
      [] last.err.msg = "Encountered unexpected key" ->
           /\ ErrHolder.ok /\ ~allow_extra[ErrHolder.cls]
           /\ last.err.path[Len(last.err.path)] \notin FieldNames(ErrHolder.cls)
           /\ Has(GivenView, Append(ErrHolder.vp, last.err.path[Len(last.err.path)]))
      [] last.err.msg = "is not of type" ->
           /\ ErrPlace.ok /\ (ErrPlace.elem <=> ErrPlace.f.islist)
           /\ ChainFails(ErrPlace.f, 1, GivenAt(ErrPlace))
      [] last.err.msg = "is not a list" ->
           /\ ErrPlace.ok /\ ~ErrPlace.elem /\ ErrPlace.f.islist
           /\ GivenAt(ErrPlace).t # "list"
      [] last.err.msg \in {"is invalid", "Wrong"} ->
           /\ ErrPlace.ok /\ ~ErrPlace.elem
           /\ \E j \in DOMAIN ErrPlace.f.validators : ErrPlace.f.validators[j] # "accept"
      [] OTHER -> last.err.msg = "not a valid choice"

\* C15 as stated: a PropertyError or ValidationError of a construction
\* carries the full dotted path to what failed, field names and list indexes
\* in order; for an element of a list field that fails coercion or is not
\* one of the choices the path ends in the index of the element
C15_PathToFailure ==
    (Constructed /\ last.err.kind \in {"PropertyError", "ValidationError"}) =>
        /\ Located
        /\ last.err.msg = "not a valid choice" =>
              /\ ErrPlace.ok /\ (ErrPlace.elem <=> ErrPlace.f.islist)
              /\ BadChoice(ErrPlace.f, GivenAt(ErrPlace))

\* C15 amended: as C15, but when an element of a list field is not one of
\* the choices the path ends in the name of the list field, without index
C15_PathToFailureOrList ==
    (Constructed /\ last.err.kind \in {"PropertyError", "ValidationError"}) =>
        /\ Located
        /\ last.err.msg = "not a valid choice" =>
              /\ ErrPlace.ok /\ ~ErrPlace.elem
              /\ IF ~ErrPlace.f.islist THEN BadChoice(ErrPlace.f, GivenAt(ErrPlace))
                 ELSE \E n \in 1..GivenAt(ErrPlace).i :
                         BadChoice(ErrPlace.f,
                                   At(GivenView, Append(ErrPlace.vp, ToString(n - 1))))

\* the second element of a list of nested mappings holds a value that is
\* not an int two levels down: the error names x.1.g.v
C15_Witness ==
    /\ Constructed /\ X.islist /\ X.types = <<"Child">>
    /\ last.err.kind = "ValidationError" /\ last.err.path = <<"x", "1", "g", "v">>
    /\ At(GivenView, <<"x", "1", "g", "v">>) = StrV("a")

\* C16 as stated: to_dict() of a constructed instance succeeds and returns a
\* plain mapping of its properties in which every nested instance, at any
\* depth and in any list, is replaced by its plain mapping, lists keep
\* length and order and every other value, a null list element included,
\* is as it was
C16_ToDictPlain ==
    last.op = "to_dict" =>
        /\ ~Failed(last)
        /\ IsDict(heap, last.val)
        /\ View(heap, last.val, <<>>) = Plain(last.input)

\* x is a single nested schema and was given a value that is not null
NestedGiven ==
    /\ Constructed /\ XEntered /\ ~X.islist /\ X.types = <<"Child">>
    /\ ~XAbsent /\ ~XNull

\* C17 as stated: a nested-schema step accepts a plain mapping and an
\* instance of that schema, and nothing else that is not null: an accepted
\* value gives an instance of the nested schema (unless something inside
\* the mapping or another field is invalid, which fails under another path
\* than x), any other value fails with ValidationError under the path x
C17_MappingOrRecord ==
    NestedGiven =>
        IF \/ At(GivenView, <<"x">>).t = "dict"
           \/ At(GivenView, <<"x">>) = Val("rec", 0, "Child")
        THEN IF Failed(last)
             THEN /\ last.err.kind \in {"PropertyError", "ValidationError"}
                  /\ last.err.path # <<"x">>
             ELSE isinstance(heap, PropAt("x"), "Child")
        ELSE XFails("ValidationError")

\* step type_ of field f cannot coerce the value m that reaches it
StepFails(f, type_, m) ==
    Uncoercible(f, IF type_ = "fn_inc" THEN "int" ELSE type_, m)

\* one of the steps types[j..] of f cannot coerce what reaches it from m
RECURSIVE AnyStepFails(_, _, _)
AnyStepFails(f, j, m) ==
    IF j > Len(f.types) THEN FALSE
    ELSE StepFails(f, f.types[j], m)
         \/ (m # None /\ AnyStepFails(f, j + 1, StepOf(f.types[j], m)))

\* the output of the last of the steps types[j..] of f applied in order
\* from m; null goes through every step
RECURSIVE ChainValue(_, _, _)
ChainValue(f, j, m) ==
    IF j > Len(f.types) \/ m = None THEN m
    ELSE ChainValue(f, j + 1, StepOf(f.types[j], m))

\* the functions among the steps types[j..] of f with what each is given
RECURSIVE ChainCalls(_, _, _)
ChainCalls(f, j, m) ==
    IF j > Len(f.types) \/ m = None THEN <<>>
    ELSE (IF f.types[j] \in Functions THEN <<[who |-> f.types[j], arg |-> m]>> ELSE <<>>)
         \o ChainCalls(f, j + 1, StepOf(f.types[j], m))

\* what the first step of x is given: the given value or the default
XGiven == GivenAt([vp |-> <<LookupKey(X)>>, f |-> X])

\* C18 as stated, for steps that are int, str, bool or a function: the
\* steps of a field are applied left to right, the
\* first one to the given value (the default when the key is absent), each
\* later one to the output of the one before, the value of the field being
\* the last output; when a step cannot coerce its input the field fails
\* with ValidationError; null goes through the steps of a nullable field
\* without a type or a function being applied
C18_StepsInOrder ==
    (/\ Constructed /\ XEntered /\ ~X.islist /\ ~X.required
     /\ X.validators = <<>> /\ X.choices = {}
     /\ \A j \in DOMAIN X.types : X.types[j] \in {"int", "str", "bool"} \cup Functions) =>
        IF AnyStepFails(X, 1, XGiven) THEN XFails("ValidationError")
        ELSE /\ XReturned
             /\ Succeeded => Mark(heap, PropAt("x")) = ChainValue(X, 1, XGiven)
             /\ [j \in DOMAIN last.calls |->
                   [who |-> last.calls[j].who, arg |-> Mark(heap, last.calls[j].arg)]]
                   = ChainCalls(X, 1, XGiven)

\* the elements of the list the caller gave under x
GivenElems ==
    [n \in 1..At(GivenView, <<LookupKey(X)>>).i |->
        At(GivenView, <<LookupKey(X), ToString(n - 1)>>)]

\* the value of x is a list of the elements elems, each put through the
\* steps of x
ElementWise(elems) ==
    /\ XReturned
    /\ Succeeded =>
          /\ IsList(heap, PropAt("x"))
          /\ [n \in DOMAIN heap[PropAt("x").i].elems |->
                 Mark(heap, heap[PropAt("x").i].elems[n])]
                = [n \in DOMAIN elems |-> ChainValue(X, 1, elems[n])]

\* C19 as stated, for a ListField of int, str, bool or function steps: an
\* absent key gives the elements of the default, each normalized, or the
\* empty list when there is no default and the field is not required; a
\* given value that is not a list fails with ValidationError; a given list
\* is normalized element by element, keeping length and order, and fails
\* with ValidationError at the first element that cannot be coerced
C19_ListField ==
    (/\ Constructed /\ XEntered /\ X.islist /\ ~X.required
     /\ X.validators = <<>> /\ X.choices = {}
     /\ \A j \in DOMAIN X.types : X.types[j] \in {"int", "str", "bool"} \cup Functions) =>
        IF XAbsent
        THEN IF X.default = NotSpecified THEN ElementWise(<<>>)
             ELSE IsList(heap, X.default) => ElementWise(heap[X.default.i].elems)
        ELSE IF At(GivenView, <<LookupKey(X)>>).t # "list"
        THEN XFails("ValidationError")
        ELSE IF \E n \in DOMAIN GivenElems : AnyStepFails(X, 1, GivenElems[n])
        THEN /\ last.err.kind = "ValidationError"
             /\ \E n \in DOMAIN GivenElems :
                   /\ last.err.path = <<"x", ToString(n - 1)>>
                   /\ AnyStepFails(X, 1, GivenElems[n])
        ELSE ElementWise(GivenElems)

\* a given value that coerces to one of the choices of f
GoodChoice(f, m) ==
    m # None /\ ~Uncoercible(f, "int", m) /\ py_in(AsInt(m), f.choices)

\* C20 as stated, for an int field with choices whose user validators all
\* accept: a given value is accepted if and only if its coerced value is
\* one of the choices, each coerced element for a ListField, and is then
\* stored as coerced; any other given value fails with ValidationError;
\* when the key is absent and there is no default the field is null
\* without error
C20_Choices ==
    (/\ Constructed /\ XEntered /\ ~X.required /\ X.choices # {}
     /\ X.types = <<"int">> /\ FirstBad(X.validators) = 0
     /\ (XAbsent => X.default = NotSpecified)) =>
        IF XAbsent THEN XReturned /\ PropAt("x") = None
        ELSE IF ~X.islist
        THEN IF GoodChoice(X, XGiven)
             THEN XReturned /\ PropAt("x") = StepOf("int", XGiven)
             ELSE last.err.kind = "ValidationError"
        ELSE IF /\ XGiven.t = "list"
                /\ \A n \in DOMAIN GivenElems : GoodChoice(X, GivenElems[n])
        THEN ElementWise(GivenElems)
        ELSE last.err.kind = "ValidationError"

\* the table of boolean coercion as it is stated
TruthyTable ==
    {IntV(1), StrV("true"), StrV("True"), StrV("yes"), StrV("1"), BoolV(TRUE)}

FalseyTable ==
    {IntV(0), StrV("false"), StrV("False"), StrV("no"), StrV("0"), BoolV(FALSE)}

\* x is a single bool and was given a value that is not null and not a
\* container
BoolGiven ==
    /\ Constructed /\ XEntered /\ ~X.islist /\ X.types = <<"bool">>
    /\ ~XAbsent /\ ~XNull

\* C21 as stated: 1, 'true', 'True', 'yes', '1' and true coerce to true, 0,
\* 'false', 'False', 'no', '0' and false coerce to false, every other value
\* that is not null fails with ValidationError
C21_BoolTable ==
    BoolGiven =>
        IF XGiven \in TruthyTable THEN XReturned /\ PropAt("x") = BoolV(TRUE)
        ELSE IF XGiven \in FalseyTable THEN XReturned /\ PropAt("x") = BoolV(FALSE)
        ELSE XFails("ValidationError")

\* C21 amended: as C21, a value being in the table when it equals one of
\* its entries as Python compares them, so that the floats 1.0 and 0.0
\* coerce to true and false as well
C21_BoolTableByEquality ==
    BoolGiven =>
        IF XGiven \in TruthyTable \cup {FloatV(1, "0")}
        THEN XReturned /\ PropAt("x") = BoolV(TRUE)
        ELSE IF XGiven \in FalseyTable \cup {FloatV(0, "0")}
        THEN XReturned /\ PropAt("x") = BoolV(FALSE)
        ELSE XFails("ValidationError")

\* a bool field given 'yes': the property is true
C21_Witness ==
    /\ Succeeded /\ BoolGiven /\ XGiven = StrV("yes")
    /\ PropAt("x") = BoolV(TRUE)

\* the record an accessor was used on and the field's name
AttrSelf == last.raw.i

AttrKey == CHOOSE k \in Keys : last.kwargs[k] # Absent

\* the record's property bag now: what its properties look like, nested
\* values included
AttrView == View(heap, Ref(AttrSelf), <<>>)

\* what a view holds apart from the property key and what is below it
Others(view, key) == {f \in view : f.p = <<>> \/ f.p[1] # key}

\* the property under a name, null when there is none
Property(self, name) ==
    IF heap[heap[self].props.i].items[name] = Absent THEN None
    ELSE heap[heap[self].props.i].items[name]

\* C22: reading a field's accessor gives the record's current property under
\* the field's name and changes nothing; assigning to the accessor of a
\* read-only field fails with AttributeError and leaves every property as
\* it was; assigning to the accessor of a field with read_only=False makes
\* the value that field's property and leaves every other property as it was
C22_Accessors ==
    /\ last.op = "getattr" =>
          /\ ~Failed(last)
          /\ last.val = Property(AttrSelf, AttrKey)
          /\ AttrView = last.input
    /\ (last.op = "setattr" /\ FieldOf(last.cls, AttrKey).read_only) =>
          /\ last.err.kind = "AttributeError"
          /\ AttrView = last.input
    /\ (last.op = "setattr" /\ ~FieldOf(last.cls, AttrKey).read_only) =>
          /\ ~Failed(last)
          /\ heap[heap[AttrSelf].props.i].items[AttrKey] = last.kwargs[AttrKey]
          /\ Others(AttrView, AttrKey) = Others(last.input, AttrKey)

\* 5 was assigned to x, which is not read-only, of a record whose y is 2,
\* and x is read afterwards
C22_Witness ==
    /\ last.op = "getattr" /\ AttrKey = "x" /\ last.val = IntV(5)
    /\ ~FieldOf(last.cls, "x").read_only
    /\ FieldOf(last.cls, "x").key = "@x"
    /\ Property(AttrSelf, "y") = IntV(2)

\* a description was asked for and a text came back
Described == last.op = "describe" /\ ~Failed(last)

DescText == last.val

\* the lines that begin an entry of the described class and the names there
EntryLines == {j \in DOMAIN DescText : DescText[j].spaces = 0}

\* the lines below the entry at line j: up to the next entry
BlockOf(j) ==
    {k \in DOMAIN DescText :
       k > j /\ \A e \in EntryLines : e > j => k < e}

Visible(cls) == {f.name : f \in {g \in Range(fields[cls]) : ~g.hidden}}

\* the names on the given lines come in ascending order, one line each
Ascending(lines) ==
    \A j \in lines, k \in lines :
       j < k => StrRank(DescText[j].name) < StrRank(DescText[k].name)

\* the entries are the fields of the class that are not hidden, one entry
\* each, in ascending order of name
EntriesInOrder ==
    /\ {DescText[j].name : j \in EntryLines} = Visible(last.cls)
    /\ Ascending(EntryLines)

\* below the entry of a field that holds a class come the entries of that
\* class, further in; below any other entry comes nothing
NestedBelow ==
    \A j \in EntryLines :
       LET f == FieldOf(last.cls, DescText[j].name)
           sub == {k \in BlockOf(j) : DescText[k].spaces = 2 /\ ~IsBlank(DescText[k])}
       IN IF f.types[1] \in Classes
          THEN /\ {DescText[k].name : k \in sub} = Visible(f.types[1])
               /\ Ascending(sub)
          ELSE BlockOf(j) = {}

\* the choices every entry shows: all of them and no marker
FewChoicesShown ==
    \A j \in EntryLines :
       LET f == FieldOf(last.cls, DescText[j].name) IN
       Cardinality(f.choices) <= 10 =>
          /\ Range(DescText[j].props.choices) = f.choices
          /\ Len(DescText[j].props.choices) = Cardinality(f.choices)
          /\ ~DescText[j].props.marker

\* at most 10 of them and the marker
ManyChoicesElided ==
    \A j \in EntryLines :
       LET f == FieldOf(last.cls, DescText[j].name) IN
       Cardinality(f.choices) > 10 =>
          /\ Range(DescText[j].props.choices) \subseteq f.choices
          /\ Len(DescText[j].props.choices) <= 10
          /\ DescText[j].props.marker

\* C23 as stated: the text describe() returns has one entry for each field
\* that is not hidden, in ascending order of name, the entry of a field that
\* holds a nested class followed by that class's description further in; a
\* field with more than 10 choices shows at most 10 of them and then a
\* marker, one with 10 or fewer shows them all and no marker
C23_Description ==
    Described =>
        /\ EntriesInOrder
        /\ NestedBelow
        /\ FewChoicesShown
        /\ ManyChoicesElided

\* C26 as stated: describe() of a class that was built returns a text and
\* raises nothing, whatever the coercion chains of its fields
C26_DescribeTotal ==
    last.op = "describe" => ~Failed(last)

\* the names of the fields of a class in the order of its table
NamesOf(cls) == [j \in DOMAIN fields[cls] |-> fields[cls][j].name]

\* the fields one level below a path whose normalization was entered, or
\* has returned, in the order this happened
Below(paths, at) ==
    LET sel == SelectSeq(paths, LAMBDA q : Len(q) = Len(at) + 1
                                          /\ SubSeq(q, 1, Len(at)) = at)
    IN [j \in DOMAIN sel |-> sel[j][Len(sel[j])]]

IsPrefix(a, b) == Len(a) <= Len(b) /\ SubSeq(b, 1, Len(a)) = a

\* the pass over the fields of cls for the mapping at a path: fields are
\* entered in the order of the table, each after the one before it has
\* returned; when the construction fails in this pass, the field entered
\* last is the only one that has not returned and the error, when it names
\* a field, names that one or one below it
PassInOrder(cls, at) ==
    LET e == Below(last.entered, at)
        r == Below(last.returned, at)
    IN /\ IsPrefix(e, NamesOf(cls))
       /\ IsPrefix(r, e)
       /\ Len(e) <= Len(r) + 1
       /\ ~Failed(last) => r = NamesOf(cls)
       /\ Len(e) = Len(r) + 1 =>
             /\ Failed(last)
             /\ last.err.kind \in {"ValidationError", "PropertyError"}
                   => IsPrefix(Append(at, e[Len(e)]), last.err.path)

\* the transforms and validators of a field
CodeOf(f) == (Range(f.types) \cap Functions) \cup Range(f.validators)

\* the place in the table of Top of the field whose code the j-th call ran
Owner(j) == CHOOSE n \in DOMAIN fields["Top"] : last.calls[j].who \in CodeOf(fields["Top"][n])

\* user code runs for the fields in the order of the table, and only for
\* fields that were entered: none for a field after the one that failed
CallsInOrder ==
    /\ \A j \in DOMAIN last.calls :
          <<fields["Top"][Owner(j)].name>> \in Range(last.entered)
    /\ \A j \in DOMAIN last.calls, k \in DOMAIN last.calls :
          j < k => Owner(j) <= Owner(k)

\* the mapping at a path has a key that is no field of cls, and cls does
\* not allow that
ExtraAt(cls, at) ==
    /\ ~allow_extra[cls]
    /\ \E f \in GivenView : Len(f.p) = Len(at) + 1 /\ IsPrefix(at, f.p)
                            /\ f.p[Len(f.p)] \notin Range(NamesOf(cls))

\* C24: in one pass the undeclared keys are looked for before any field of
\* the class is normalized, the fields are then normalized one at a time in
\* order, and the pass ends at the first field that fails: one error, and
\* no transform and no validator of a later field is called
C24_PassOrder ==
    Constructed =>
        /\ ExtraAt("Top", <<>>) =>
              /\ ExtraError(1)
              /\ last.entered = <<>> /\ last.calls = <<>>
        /\ PassInOrder("Top", <<>>)
        /\ CallsInOrder
        /\ (X.types[1] = "Child" /\ Has(GivenView, <<"x">>)
              /\ At(GivenView, <<"x">>).t = "dict" /\ XEntered) =>
              /\ ExtraAt("Child", <<"x">>) =>
                    /\ ExtraError(2)
                    /\ Below(last.entered, <<"x">>) = <<>>
              /\ PassInOrder("Child", <<"x">>)

\* x fails in its validator after its transform was called: y, which has a
\* transform and a validator and was given a value, is never entered
C24_Witness ==
    /\ Constructed /\ XFails("ValidationError")
    /\ X.validators = <<"reject">>
    /\ [j \in DOMAIN last.calls |-> last.calls[j].who] = <<"fn_inc", "reject">>
    /\ Has(GivenView, <<"y">>)
    /\ last.entered = <<<<"x">>>>

\* the instance held under x by the instance the operation was asked of
HeldUnderX == heap[heap[last.raw.i].props.i].items["x"]

\* a mapping that is not an instance, and nothing below it is one
PlainMapping(v) ==
    /\ IsDict(heap, v)
    /\ \A f \in View(heap, v, <<>>) : f.m.t # "rec"

\* C25 as stated: whatever the names of the fields of the classes that were
\* built, none is called get, update, copy or describe, parent of a nested
\* instance is the instance that holds it, and to_dict() returns the plain
\* mapping
C25_BuiltInsKept ==
    /\ \A cls \in Classes :
          FieldNames(cls) \cap {"get", "update", "copy", "describe"} = {}
    /\ last.op = "parent" => ~Failed(last) /\ last.val = last.raw
    /\ last.op = "to_dict" => ~Failed(last) /\ PlainMapping(last.val)

====
